---------------------------- MODULE Spec2Model ----------------------------
(***************************************************************************)
(* The simulation / dataset / training / prediction core of the three      *)
(* teaching demos (acid-base indicator colour, pendulum, tomato growth).   *)
(*                                                                         *)
(* Part I  (specification Spec): the life cycle of the process-wide        *)
(*   "current model" and "current normalization" of one domain, with its   *)
(*   two persisted slots: training (step by step, every step may throw),   *)
(*   saving, loading, page reload and prediction.                          *)
(* Part II (specification SpecGen): the synthetic dataset generators and   *)
(*   the mulberry32 generator they draw from.                              *)
(* Part III (specifications SpecSim, SpecRng): calls of the simulators and *)
(*   of mulberry32 generator objects, in any interleaving.                 *)
(* Part IV (specifications SpecPendulum, SpecTomato): the loops of         *)
(*   simulatePendulum and simulateTomato, one iteration per step.          *)
(* Part V  (specification SpecColor): the universal-indicator colour       *)
(*   interpolation of the acid-base page.                                  *)
(* Part VI (specification SpecUi): the page controllers driving Part I:    *)
(*   the train button, the "trained" flag, predictions and updateColor.    *)
(* Part VII (specification SpecPlayback): play / pause / reset and the     *)
(*   interval timers of the tomato page.                                   *)
(* Part VIII (specification SpecAnimation): the animation clock of the     *)
(*   pendulum page: run, pause / resume, reset, dragging and p.draw.       *)
(*                                                                         *)
(* Sources: src/acid base/acid-base.js (ml-acid-base.js part),             *)
(*   src/tomato-germination/tomato.js (ml-tomato.js part),                 *)
(*   src/unnamed/part_003 (ml-pendulum.js), src/unnamed/part_004 (the      *)
(*   tomato ai.ts), src/tomato-germination/logic/sim.ts, helpers.ts,       *)
(*   src/pendulum/pendulum.js.                                             *)
(***************************************************************************)
EXTENDS Integers, Sequences, FiniteSets, TLC

VARIABLES
    dom,            \* the domain module the behaviour is about
    currentModel,   \* acidBaseModel / tomatoModel / pendulumModel (module global)
    normalization,  \* the module-global normalization (ai.ts: the value the caller holds)
    storage,        \* the browser-local persistent store: key -> entry
    pc,             \* position of the asynchronous training task
    task,           \* the frame of the training invocation in flight
    runs,           \* training invocations started so far
    fitting,        \* the model object model.fit() is working on
    fitIsCurrent,   \* the global still references the object being fitted
    session,        \* what has happened since the page was loaded
    ret,            \* outcome of the call that returned in the last step
    gen,            \* Part II: the generator / simulator calls made so far
    rngs,           \* Part III: the mulberry32 generator objects alive
    run,            \* Part IV: the simulator invocation being executed
    ui              \* Part VI: the page controller of the domain

vars == <<dom, currentModel, normalization, storage, pc, task, runs, fitting,
          fitIsCurrent, session, ret, gen, rngs, run, ui>>

mlVars == <<dom, currentModel, normalization, storage, pc, task, runs, fitting,
            fitIsCurrent, session, ret>>

-----------------------------------------------------------------------------
(* Bounds of the model *)

\* training invocations per behaviour
MaxRuns == 2
\* largest dataset handed to a training invocation
MaxRows == 2
\* largest epoch count a caller passes explicitly
MaxEpochsArg == 1
\* epochs of one model.fit after which other events get to run one at a time
MaxYields == 2

-----------------------------------------------------------------------------
(* Domains and their constants *)

\* the three browser modules, and the TypeScript tomato ai.ts
MainDomains == {"acid", "tomato", "pendulum"}
Domains == MainDomains \cup {"tomatoTs"}

\* const { epochs = 50 } / { epochs = 40 } / options.epochs || 100 / options?.epochs ?? 40
DefaultEpochsAcid == 50
DefaultEpochsTomato == 40
DefaultEpochsPendulum == 100
DefaultEpochsTomatoTs == 40

DefaultEpochs(d) ==
    CASE d = "acid" -> DefaultEpochsAcid
      [] d = "tomato" -> DefaultEpochsTomato
      [] d = "pendulum" -> DefaultEpochsPendulum
      [] OTHER -> DefaultEpochsTomatoTs

\* MODEL_NAME / NORMALIZATION_NAME of each module
MODEL_NAME(d) ==
    CASE d = "acid" -> "acid-base-model"
      [] d = "tomato" -> "tomato-ml-model"
      [] d = "pendulum" -> "pendulum-ml-model"
      [] OTHER -> "tomato-model"

NORMALIZATION_NAME(d) ==
    CASE d = "acid" -> "acid-base-normalization"
      [] d = "tomato" -> "tomato-normalization"
      [] d = "pendulum" -> "pendulum-normalization"
      [] OTHER -> "none"


-----------------------------------------------------------------------------
(* Values: models, normalization records, stored entries *)

\* null (no model, no normalization, getItem of a missing key)
Null == [kind |-> "null", run |-> 0, init |-> 0, trained |-> "no"]

\* tf.sequential(...) of createAcidBaseModel / createTomatoModel /
\* createPendulumModel: a freshly initialised network, created by training
\* invocation r.  `init' is the invocation that initialised the weights, `run'
\* the invocation whose fit last worked on them, `trained' whether epochs
\* have been applied ("no", "partial": a fit that has not ended, "full")
FreshModel(r) == [kind |-> "model", run |-> r, init |-> r, trained |-> "no"]

\* computeNormalization(inputs) / computeMeanStd(rows): the mean/std record
\* computed from the dataset of training invocation r
Norm(r) == [kind |-> "norm", run |-> r, init |-> 0, trained |-> "no"]

\* a stored value that is not what the module wrote (invalid JSON, damaged blob)
Corrupt == [kind |-> "corrupt", run |-> 0, init |-> 0, trained |-> "no"]

IsNull(v) == v.kind = "null"

\* model.save(url): the stored artifacts of a model
SerializeModel(m) == [m EXCEPT !.kind = "blob"]

\* tf.loadLayersModel(url) on a stored entry: the model; it throws on a
\* missing or damaged entry (Null stands for the exception)
DeserializeModel(e) == IF e.kind = "blob" THEN [e EXCEPT !.kind = "model"] ELSE Null

\* JSON.stringify(norm)
JSONstringify(n) == [n EXCEPT !.kind = "json"]

\* JSON.parse(stored): defined on what JSON.stringify wrote, a SyntaxError otherwise
JSONparses(e) == e.kind = "json"

JSONparse(e) == [e EXCEPT !.kind = "norm"]

-----------------------------------------------------------------------------
(* Storage keys: the URL each save and each load hands to the store *)

\* acidBaseModel.save(`indexeddb://${name}`), tomatoModel.save(`indexeddb://${name}`),
\* model.save(`localstorage://${MODEL_NAME}`)
ModelSaveUrl(d) ==
    IF d = "pendulum"
    THEN [scheme |-> "localstorage", path |-> <<MODEL_NAME(d)>>]
    ELSE [scheme |-> "indexeddb", path |-> <<MODEL_NAME(d)>>]

\* the name the controller passes to loadModelIndexedDB (acid-base, tomato);
\* ai.ts: the default parameter
ModelLoadName(d) ==
    CASE d = "acid" -> "acid-base-model"
      [] d = "tomato" -> "tomato-ml-model"
      [] OTHER -> "tomato-model"

\* tf.loadLayersModel(`indexeddb://${name}`),
\* tf.loadLayersModel(`localstorage://${MODEL_NAME}/model.json`)
ModelLoadUrl(d) ==
    IF d = "pendulum"
    THEN [scheme |-> "localstorage", path |-> <<MODEL_NAME(d), "model.json">>]
    ELSE [scheme |-> "indexeddb", path |-> <<ModelLoadName(d)>>]

\* localStorage.setItem(name, ...) of saveNormalizationIndexedDB
NormSaveKey(d) == [scheme |-> "item", path |-> <<NORMALIZATION_NAME(d)>>]

\* the name the controller passes to loadNormalizationIndexedDB
NormLoadName(d) ==
    CASE d = "acid" -> "acid-base-normalization"
      [] d = "tomato" -> "tomato-normalization"
      [] d = "pendulum" -> NORMALIZATION_NAME(d)
      [] OTHER -> "none"

\* localStorage.getItem(name) of loadNormalizationIndexedDB
NormLoadKey(d) == [scheme |-> "item", path |-> <<NormLoadName(d)>>]

\* ai.ts keeps no normalization slot
HasNormSlot(d) == d # "tomatoTs"

Keys(d) == {ModelSaveUrl(d), ModelLoadUrl(d)}
             \cup (IF HasNormSlot(d) THEN {NormSaveKey(d), NormLoadKey(d)} ELSE {})


-----------------------------------------------------------------------------
(* Part I: state after the page has loaded the module for the first time *)

\* options passed to a training function: epochs given or left undefined
EpochOptions ==
    {[has |-> FALSE, epochs |-> 0]}
        \cup {[has |-> TRUE, epochs |-> e] : e \in (-1)..MaxEpochsArg}

\* a step of the synchronous part of a training function at which the library
\* (tf, tfvis) may throw: nowhere, before the normalization is assigned, after
\* it and before the model is assigned, after both
Faults == {"none", "early", "tensors", "callbacks"}

\* the frame of a training invocation: its arguments, the epochs handed to
\* model.fit, the epochs completed, the error it ended with, the keys of the
\* store it has written, and the module globals as they were when it was called
NoTask(d) ==
    [run |-> 0, rows |-> 0, opts |-> [has |-> FALSE, epochs |-> 0], epochs |-> 0,
     done |-> 0, error |-> "none", wrote |-> {},
     before |-> [model |-> Null, norm |-> Null]]

\* what a call returned: the operation, its outcome ("throws": it raised an
\* error), the model and the normalization it used or returned, whether a
\* training had completed or a model had been loaded in the session when it
\* was made, and for a training function its frame
Ret(op, out, m, n, ready, frame) ==
    [op |-> op, out |-> out, model |-> m, norm |-> n, ready |-> ready,
     frame |-> frame]

NoRet == Ret("none", "none", Null, Null, FALSE, NoTask(dom))

\* let acidBaseModel = null; let normalization = null; (and the like), an empty store
MLInit ==
    /\ dom \in Domains
    /\ currentModel = Null
    /\ normalization = Null
    /\ storage = [k \in Keys(dom) |-> Null]
    /\ pc = "idle"
    /\ task = NoTask(dom)
    /\ runs = 0
    /\ fitting = Null
    /\ fitIsCurrent = FALSE
    /\ session = [trained |-> FALSE, loaded |-> FALSE]
    /\ ret = NoRet

SessionReady == session.trained \/ session.loaded

-----------------------------------------------------------------------------
(* Training: the synchronous part, up to the call of model.fit *)

\* const { epochs = 50 } = options (acid-base, tomato: the default replaces
\* undefined only); options.epochs || 100 (pendulum: the default replaces every
\* falsy value, 0 included); options?.epochs ?? 40 (ai.ts)
EffectiveEpochs(d, opts) ==
    IF d = "pendulum"
    THEN (IF opts.has /\ opts.epochs # 0 THEN opts.epochs ELSE DefaultEpochs(d))
    ELSE (IF opts.has THEN opts.epochs ELSE DefaultEpochs(d))

\* trainAcidBaseModel / trainTomatoModel (tomato.js), lines up to the fit call:
\*   normalization = computeNormalization(inputs)   (tf.tensor2d([]) throws)
\*   tensors, normalizeData
\*   acidBaseModel = createAcidBaseModel(3)
\*   tfvis.show.fitCallbacks(...)
PrefixJs(r, rows, fault) ==
    IF rows = 0 \/ fault = "early"
    THEN [norm |-> normalization, model |-> currentModel,
          error |-> IF rows = 0 THEN "tfShape" ELSE "tf"]
    ELSE IF fault = "tensors"
    THEN [norm |-> Norm(r), model |-> currentModel, error |-> "tf"]
    ELSE [norm |-> Norm(r), model |-> FreshModel(r),
          error |-> IF fault = "callbacks" THEN "tf" ELSE "none"]

\* trainPendulumModel, lines up to the fit call:
\*   if (!tf) throw ...; tfvis.visor().open()
\*   normalization = computeMeanStd(allRows)        (never throws)
\*   tf.tensor2d(rawX); rawX[0].length              (throw on an empty dataset)
\*   createPendulumModel(...)                       (assigns pendulumModel)
\*   tfvis.show.fitCallbacks(...)
PrefixPendulum(r, rows, fault) ==
    IF fault = "early"
    THEN [norm |-> normalization, model |-> currentModel, error |-> "tf"]
    ELSE IF rows = 0 \/ fault = "tensors"
    THEN [norm |-> Norm(r), model |-> currentModel,
          error |-> IF rows = 0 THEN "tfShape" ELSE "tf"]
    ELSE [norm |-> Norm(r), model |-> FreshModel(r),
          error |-> IF fault = "callbacks" THEN "tf" ELSE "none"]

\* ai.ts trainTomatoModel, lines up to the fit call:
\*   if (!tomatoModel) createTomatoModel()
\*   computeMeanStd(rows) (local), tf.tensor2d(norm.xs) (throws on an empty dataset)
\*   tfvis.show.fitCallbacks(...)
PrefixTomatoTs(r, rows, fault) ==
    IF fault = "early"
    THEN [norm |-> normalization, model |-> currentModel, error |-> "tf"]
    ELSE [norm |-> normalization,
          model |-> IF IsNull(currentModel) THEN FreshModel(r) ELSE currentModel,
          error |-> IF rows = 0 THEN "tfShape"
                    ELSE IF fault \in {"tensors", "callbacks"} THEN "tf" ELSE "none"]

Prefix(d, r, rows, fault) ==
    CASE d \in {"acid", "tomato"} -> PrefixJs(r, rows, fault)
      [] d = "pendulum" -> PrefixPendulum(r, rows, fault)
      [] OTHER -> PrefixTomatoTs(r, rows, fault)

\* A training function is called with a dataset of `rows' rows and `opts'.
\* It runs to its first await (model.fit), or throws before it.
TrainStart(rows, opts, fault) ==
    /\ pc = "idle"
    /\ runs < MaxRuns
    /\ runs' = runs + 1
    /\ LET r == runs + 1
           p == Prefix(dom, r, rows, fault)
           t == [run |-> r, rows |-> rows, opts |-> opts,
                 epochs |-> EffectiveEpochs(dom, opts), done |-> 0,
                 error |-> p.error, wrote |-> {},
                 before |-> [model |-> currentModel, norm |-> normalization]]
       IN /\ normalization' = p.norm
          /\ currentModel' = p.model
          /\ IF p.error = "none"
             THEN /\ pc' = "fit"
                  /\ task' = t
                  /\ fitting' = p.model
                  /\ fitIsCurrent' = TRUE
                  /\ ret' = NoRet
             ELSE /\ pc' = "idle"
                  /\ task' = NoTask(dom)
                  /\ UNCHANGED <<fitting, fitIsCurrent>>
                  /\ ret' = Ret("train", "throws", p.model, p.norm, SessionReady, t)
    /\ UNCHANGED <<dom, storage, session, gen, rngs, run>>

\* a training function ends with an error
TrainThrows(error, frame) ==
    /\ pc' = "idle"
    /\ task' = NoTask(dom)
    /\ ret' = Ret("train", "throws", currentModel, normalization, SessionReady,
                  [frame EXCEPT !.error = error])

\* a training function returns its result
TrainReturns(m, n, frame) ==
    /\ pc' = "idle"
    /\ task' = NoTask(dom)
    /\ session' = [session EXCEPT !.trained = TRUE]
    /\ ret' = Ret("train", "ok", m, n, TRUE, frame)

\* the frame after the invocation has written key k of the store
Wrote(k) == [task EXCEPT !.wrote = @ \cup {k}]

-----------------------------------------------------------------------------
(* Training: model.fit, one epoch at a time; other events run in between *)

\* model.fit yields to the event loop only now and then (yieldEvery: 'auto'),
\* so other events see the model after some of its epochs.
\* One epoch of model.fit on the object it was called on, then a yield
FitEpoch ==
    /\ pc = "fit"
    /\ task.done < task.epochs
    /\ task.done < MaxYields
    /\ fitting' = [fitting EXCEPT !.run = task.run,
                     !.trained = IF task.done + 1 >= task.epochs
                                 THEN "full" ELSE "partial"]
    /\ currentModel' = IF fitIsCurrent THEN fitting' ELSE currentModel
    /\ task' = [task EXCEPT !.done = @ + 1]
    /\ ret' = NoRet
    /\ UNCHANGED <<dom, normalization, storage, pc, runs, fitIsCurrent, session, gen, rngs, run>>

\* all the remaining epochs of model.fit without a yield in between
FitRest ==
    /\ pc = "fit"
    /\ task.done < task.epochs
    /\ fitting' = [fitting EXCEPT !.run = task.run, !.trained = "full"]
    /\ currentModel' = IF fitIsCurrent THEN fitting' ELSE currentModel
    /\ task' = [task EXCEPT !.done = task.epochs]
    /\ ret' = NoRet
    /\ UNCHANGED <<dom, normalization, storage, pc, runs, fitIsCurrent, session, gen, rngs, run>>

\* model.fit rejects (the library throws during training): the await in the
\* training function rethrows and the function ends
FitFail ==
    /\ pc = "fit"
    /\ TrainThrows("tf", task)
    /\ UNCHANGED <<dom, currentModel, normalization, storage, runs, fitting,
                   fitIsCurrent, session, gen, rngs, run>>

\* model.fit resolves: the loop `for epoch < epochs' is over (at once when
\* epochs <= 0).  The function goes on to its save steps:
\*   acid-base, tomato.js: await saveModelIndexedDB(MODEL_NAME), then the normalization
\*   pendulum: await saveNormalizationIndexedDB(normalization) (localStorage.setItem,
\*             which may throw), then await saveModelIndexedDB(model)
\*   ai.ts: no save; return { history, normalization: { mean, std } }, which
\*          the caller keeps for its predictions
FitDone(setItemOk) ==
    /\ pc = "fit"
    /\ task.done >= task.epochs
    /\ CASE dom \in {"acid", "tomato"} ->
              /\ pc' = "saveModel"
              /\ ret' = NoRet
              /\ UNCHANGED <<task, storage, normalization, session>>
         [] dom = "pendulum" ->
              IF setItemOk
              THEN /\ storage' = [storage EXCEPT
                                    ![NormSaveKey(dom)] = JSONstringify(normalization)]
                   /\ task' = Wrote(NormSaveKey(dom))
                   /\ pc' = "saveModel"
                   /\ ret' = NoRet
                   /\ UNCHANGED <<normalization, session>>
              ELSE /\ TrainThrows("storage", task)
                   /\ UNCHANGED <<storage, normalization, session>>
         [] OTHER ->
              /\ TrainReturns(currentModel, Norm(task.run), task)
              /\ normalization' = Norm(task.run)
              /\ UNCHANGED storage
    /\ UNCHANGED <<dom, currentModel, runs, fitting, fitIsCurrent, gen, rngs, run>>

\* the model the save step writes: the global (acid-base, tomato.js:
\* saveModelIndexedDB(name) saves acidBaseModel / tomatoModel), the local
\* `model' of trainPendulumModel
SavedModel == IF dom = "pendulum" THEN fitting ELSE currentModel

\* model.save(url) completes: the store holds the model (or the save rejects).
\* The training function resumes in a later task.
SaveModelStep(saveOk) ==
    /\ pc = "saveModel"
    /\ IF saveOk
       THEN /\ storage' = [storage EXCEPT
                             ![ModelSaveUrl(dom)] = SerializeModel(SavedModel)]
            /\ task' = Wrote(ModelSaveUrl(dom))
            /\ pc' = "resume"
            /\ ret' = NoRet
       ELSE /\ TrainThrows("storage", task)
            /\ UNCHANGED storage
    /\ UNCHANGED <<dom, currentModel, normalization, runs, fitting, fitIsCurrent,
                   session, gen, rngs, run>>

\* the training function resumes after the model was saved:
\*   acid-base, tomato.js: await saveNormalizationIndexedDB(NORMALIZATION_NAME, normalization),
\*     then history.history.loss[length - 1].toFixed(4) (a TypeError when no
\*     epoch ran), then return
\*   pendulum: return { status: 'Training complete', model, normalization }
TrainResume(setItemOk) ==
    /\ pc = "resume"
    /\ IF dom = "pendulum"
       THEN /\ TrainReturns(fitting, normalization, task)
            /\ UNCHANGED storage
       ELSE IF ~setItemOk
       THEN /\ TrainThrows("storage", task)
            /\ UNCHANGED <<storage, session>>
       ELSE /\ storage' = [storage EXCEPT
                             ![NormSaveKey(dom)] = JSONstringify(normalization)]
            /\ IF task.done = 0
               THEN /\ TrainThrows("typeError", Wrote(NormSaveKey(dom)))
                    /\ UNCHANGED session
               ELSE TrainReturns(currentModel, normalization,
                                 Wrote(NormSaveKey(dom)))
    /\ UNCHANGED <<dom, currentModel, normalization, runs, fitting, fitIsCurrent, gen, rngs, run>>


-----------------------------------------------------------------------------
(* Prediction *)

\* predictColor(pH, pathLengthCm, indicator, norm) and
\* predictTomatoHeight(input, norm): `if (!model) throw', then
\* normalizeData(inputTensor, norm), which reads norm.mean (a TypeError on
\* null), then model.predict.  The controllers pass getNormalization().
\* ai.ts predictTomatoHeight(input, normalization) reads normalization.mean too.
PredictWithNormArg(m, n) ==
    IF IsNull(m) THEN "notReady"
    ELSE IF IsNull(n) THEN "typeError"
    ELSE "value"

\* predictPendulumPeriod(input): `if (!pendulumModel || !normalization) throw'
PredictPendulum(m, n) ==
    IF IsNull(m) \/ IsNull(n) THEN "notReady" ELSE "value"

PredictOutcome(d, m, n) ==
    IF d = "pendulum" THEN PredictPendulum(m, n) ELSE PredictWithNormArg(m, n)

\* a prediction call; it reads the globals as they are at the call
Predict ==
    /\ ret' = Ret("predict", PredictOutcome(dom, currentModel, normalization),
                  currentModel, normalization, SessionReady, NoTask(dom))
    /\ UNCHANGED <<dom, currentModel, normalization, storage, pc, task, runs,
                   fitting, fitIsCurrent, session, gen, rngs, run>>

-----------------------------------------------------------------------------
(* Persistence: the load functions *)

\* loadModelIndexedDB: `try { model = await tf.loadLayersModel(url); return model }
\* catch { return null }' (acid-base, tomato.js, pendulum); ai.ts has no try.
\* The result on store `st': the outcome and the model
LoadModelResult(d, st) ==
    LET m == DeserializeModel(st[ModelLoadUrl(d)])
    IN IF ~IsNull(m) THEN [out |-> "model", model |-> m]
       ELSE [out |-> IF d = "tomatoTs" THEN "throws" ELSE "null", model |-> Null]

\* loadNormalizationIndexedDB: `stored = localStorage.getItem(name);
\* if (stored) { normalization = JSON.parse(stored); return normalization }
\* return null'
LoadNormResult(d, st) ==
    LET e == st[NormLoadKey(d)]
    IN IF IsNull(e) THEN [out |-> "null", norm |-> Null]
       ELSE IF JSONparses(e) THEN [out |-> "norm", norm |-> JSONparse(e)]
       ELSE [out |-> "throws", norm |-> Null]

\* the exported loadModelIndexedDB, called on demand (pendulum, ai.ts: no
\* caller in the repository; the controllers of the other two call it at
\* page load, see Reload)
LoadModel ==
    /\ dom \in {"pendulum", "tomatoTs"}
    /\ LET r == LoadModelResult(dom, storage)
       IN /\ currentModel' = IF r.out = "model" THEN r.model ELSE currentModel
          /\ fitIsCurrent' = IF r.out = "model" THEN FALSE ELSE fitIsCurrent
          /\ session' = IF r.out = "model"
                        THEN [session EXCEPT !.loaded = TRUE] ELSE session
          /\ ret' = Ret("loadModel", r.out, r.model, Null, SessionReady, NoTask(dom))
    /\ UNCHANGED <<dom, normalization, storage, pc, task, runs, fitting, gen, rngs, run>>

\* the exported loadNormalizationIndexedDB of ml-pendulum.js, called on demand
LoadNorm ==
    /\ dom = "pendulum"
    /\ LET r == LoadNormResult(dom, storage)
       IN /\ normalization' = IF r.out = "norm" THEN r.norm ELSE normalization
          /\ ret' = Ret("loadNorm", r.out, Null, r.norm, SessionReady, NoTask(dom))
    /\ UNCHANGED <<dom, currentModel, storage, pc, task, runs, fitting,
                   fitIsCurrent, session, gen, rngs, run>>

\* ai.ts saveModelIndexedDB(name = "tomato-model"): `if (!tomatoModel) throw',
\* then tomatoModel.save
SaveModelTs(saveOk) ==
    /\ dom = "tomatoTs"
    /\ IF IsNull(currentModel) \/ ~saveOk
       THEN /\ ret' = Ret("saveModel", "throws", currentModel, Null, SessionReady,
                          NoTask(dom))
            /\ UNCHANGED storage
       ELSE /\ storage' = [storage EXCEPT
                             ![ModelSaveUrl(dom)] = SerializeModel(currentModel)]
            /\ ret' = Ret("saveModel", "ok", currentModel, Null, SessionReady,
                          NoTask(dom))
    /\ UNCHANGED <<dom, currentModel, normalization, pc, task, runs, fitting,
                   fitIsCurrent, session, gen, rngs, run>>

\* The page is reloaded: the module globals start as null again, a training
\* task in flight is gone, the store stays.  The acid-base and the tomato
\* controller then run loadSavedModel():
\*   model = await loadModelIndexedDB('...'); norm = loadNormalizationIndexedDB('...')
\* (the pendulum controller loads nothing; ai.ts has no controller).
Reload ==
    /\ pc' = "idle"
    /\ task' = NoTask(dom)
    /\ fitting' = Null
    /\ fitIsCurrent' = FALSE
    /\ IF dom \in {"acid", "tomato"}
       THEN LET m == LoadModelResult(dom, storage)
                n == LoadNormResult(dom, storage)
            IN /\ currentModel' = m.model
               /\ normalization' = n.norm
               /\ session' = [trained |-> FALSE, loaded |-> m.out = "model"]
               /\ ret' = Ret("loadSaved", IF n.out = "throws" THEN "throws" ELSE "ok",
                             m.model, n.norm, FALSE, NoTask(dom))
       ELSE /\ currentModel' = Null
            /\ normalization' = Null
            /\ session' = [trained |-> FALSE, loaded |-> FALSE]
            /\ ret' = Ret("reload", "ok", Null, Null, FALSE, NoTask(dom))
    /\ UNCHANGED <<dom, storage, runs, gen, rngs, run>>

\* something else than the module writes a stored entry (another script of the
\* origin, a truncated write, the user's developer tools)
CorruptEntry(k) ==
    /\ storage[k] # Corrupt
    /\ storage' = [storage EXCEPT ![k] = Corrupt]
    /\ ret' = NoRet
    /\ UNCHANGED <<dom, currentModel, normalization, pc, task, runs, fitting,
                   fitIsCurrent, session, gen, rngs, run>>

-----------------------------------------------------------------------------
(* Part VI: the page controllers (AcidBaseExperiment, TomatoExperiment,       *)
(* PendulumExperiment), as their constructors leave them                      *)

\* no prediction has been asked of the module
NoPrediction == [out |-> "none", model |-> Null, norm |-> Null, inflight |-> 0]

\* the colour runSimulation returns for a pH (noise aside)
FormulaColor(pH) == [mode |-> "formula", pH |-> pH, model |-> Null]

\* tomato.js constructor: no simulation data, day 0, not playing, no interval
\* handle; `live' are the interval timers of the page that were not cleared,
\* `started' counts setInterval calls, `late' records that a timer advanced
\* currentDay while isPlaying was false
NewPlayback ==
    [simulationData |-> 0, currentDay |-> 0, isPlaying |-> FALSE,
     animationInterval |-> 0, live |-> {}, started |-> 0, late |-> FALSE]

\* the draw callback has not run
NoDraw == [branch |-> "none", startTime |-> [nan |-> FALSE, v |-> 0],
           frame |-> [nan |-> FALSE, v |-> 0], length |-> 0]

\* pendulum.js constructor: physicsData = [] (its length is kept), frame 0, not
\* animating, startTime = 0; pausedTime and wasAnimatingBeforeDrag are not
\* assigned (undefined: NaN in arithmetic, false in a condition). p.setup()
\* calls noLoop(). `millis' is sketch.millis() in simulation time steps,
\* `pauseTimers' the setTimeout(..., 50) callbacks of mouseReleased that have
\* not run, `drawn' what the last call of p.draw read
NewAnimation ==
    [physicsData |-> 0, currentFrame |-> [nan |-> FALSE, v |-> 0],
     isAnimating |-> FALSE, startTime |-> [nan |-> FALSE, v |-> 0],
     pausedTime |-> [nan |-> TRUE, v |-> 0],
     isBobDragging |-> FALSE, isLengthChanging |-> FALSE,
     wasAnimatingBeforeDrag |-> FALSE, hasRunOnce |-> FALSE,
     looping |-> FALSE, debounceTimer |-> FALSE, pauseTimers |-> 0,
     millis |-> 0, drawn |-> NoDraw]

\* the playback state of the page of domain d
NewView(d) ==
    IF d = "tomato" THEN NewPlayback
    ELSE IF d = "pendulum" THEN NewAnimation
    ELSE [simulationData |-> 0]

\* the fields the three controllers share: the mode buttons, the "trained"
\* flag (mlTrained, isModelTrained), the train button, the invocations of
\* trainMLModel / startTraining that have not ended (`prep' of them before
\* their call of the training function), the calls made of the epoch-progress
\* callback passed to the run, the last prediction asked of the module.
\* AcidBaseExperiment: this.pH = 7.0, the updateColor calls that wait for
\* predictColor, this.targetColor after init() has called updateColor()
NewController(d) ==
    [mode |-> "formula", mlTrained |-> FALSE, disabled |-> FALSE, training |-> 0,
     prep |-> 0, onEpochEnd |-> 0, predicted |-> NoPrediction,
     pH |-> 70, pending |-> <<>>, targetColor |-> FormulaColor(70),
     view |-> NewView(d)]

-----------------------------------------------------------------------------
(* Part I: the specification *)

\* no simulator invocation has been made
NoRun == [fn |-> "none", returned |-> TRUE]

Init ==
    /\ MLInit
    /\ gen = <<>>
    /\ rngs = <<>>
    /\ run = NoRun
    /\ ui = NewController(dom)

Next ==
    \/ \E rows \in 0..MaxRows, opts \in EpochOptions, fault \in Faults :
          TrainStart(rows, opts, fault) /\ UNCHANGED ui
    \/ FitEpoch /\ UNCHANGED ui
    \/ FitRest /\ UNCHANGED ui
    \/ FitFail /\ UNCHANGED ui
    \/ \E ok \in BOOLEAN : FitDone(ok) /\ UNCHANGED ui
    \/ \E ok \in BOOLEAN : SaveModelStep(ok) /\ UNCHANGED ui
    \/ \E ok \in BOOLEAN : TrainResume(ok) /\ UNCHANGED ui
    \/ Predict /\ UNCHANGED ui
    \/ LoadModel /\ UNCHANGED ui
    \/ LoadNorm /\ UNCHANGED ui
    \/ \E ok \in BOOLEAN : SaveModelTs(ok) /\ UNCHANGED ui
    \/ Reload /\ UNCHANGED ui
    \/ \E k \in Keys(dom) : CorruptEntry(k) /\ UNCHANGED ui

Spec == Init /\ [][Next]_vars

-----------------------------------------------------------------------------
(* Part I: the properties *)

\* the frame of the training invocation a state is about: the one in flight,
\* or the one that has just returned
Frame == IF pc # "idle" THEN task ELSE ret.frame

\* C1: a prediction call made in a session in which no training has completed
\* and no model has been loaded fails with the model-not-ready error
C1_NotReadyWithoutModel ==
    (ret.op = "predict" /\ ~ret.ready) => ret.out = "notReady"

\* C2: every prediction of the three browser modules that runs a forward pass
\* uses the normalization computed by the training run that produced the
\* model it runs
C2_ModelAndNormOfOneRun ==
    (dom \in MainDomains /\ ret.op = "predict" /\ ret.out = "value")
        => ret.model.run = ret.norm.run

\* C3: a training invocation that ends with an error has written neither
\* persisted slot
C3_FailedTrainingWritesNothing ==
    (ret.op = "train" /\ ret.out = "throws") => ret.frame.wrote = {}

\* C4: after a training invocation of a browser module has returned
\* successfully, the keys its load functions read are keys the training
\* wrote, and (the entries being undamaged) they load the model and the
\* normalization the training returned
C4_LoadReadsWhatTrainingWrote ==
    (dom \in MainDomains /\ ret.op = "train" /\ ret.out = "ok")
        => /\ ModelLoadUrl(dom) \in ret.frame.wrote
           /\ NormLoadKey(dom) \in ret.frame.wrote
           /\ (\A k \in Keys(dom) : storage[k] # Corrupt)
                 => /\ LoadModelResult(dom, storage).model = ret.model
                    /\ LoadNormResult(dom, storage).norm = ret.norm

\* C5: a load of a model or of a normalization record never throws or
\* rejects, whatever the store holds
C5_LoadNeverThrows ==
    ret.op \in {"loadModel", "loadNorm", "loadSaved"} => ret.out # "throws"

\* C6: a training invocation given 0 or 1 rows never gets to model.fit; it
\* ends with an error and leaves the current model, the current normalization
\* and the store as they were
C6_TinyDatasetFailsFast ==
    (Frame.run > 0 /\ Frame.rows <= 1)
        => /\ pc = "idle"
           /\ ret.out = "throws"
           /\ currentModel = Frame.before.model
           /\ normalization = Frame.before.norm
           /\ Frame.wrote = {}

\* C7: a training invocation called with an epoch count of zero or less runs
\* no epoch, hands no other epoch count to model.fit (no default takes its
\* place), and ends with an error
C7_NonPositiveEpochsRejected ==
    (Frame.run > 0 /\ Frame.opts.has /\ Frame.opts.epochs <= 0)
        => /\ Frame.done = 0
           /\ (pc = "fit" => Frame.epochs = Frame.opts.epochs)
           /\ (ret.op = "train" => ret.out = "throws")

\* C8: the model a training invocation fits was initialised by that
\* invocation
C8_FitStartsFromFreshModel ==
    pc = "fit" => fitting.init = task.run

-----------------------------------------------------------------------------
(* Part II: mulberry32.  A 32-bit word is a pair of 16-bit halves, so that    *)
(* no intermediate value leaves the range of 32-bit signed integers.           *)

\* largest sample count n handed to a dataset generator
MaxSamples == 2
\* largest day count (spec.simDuration_s, spec.targetDay) handed to a tomato generator
MaxDays == 2

\* 2^16
Half == 256 * 256
Word(hi, lo) == [hi |-> hi, lo |-> lo]

\* the 32-bit word of a small non-negative integer (seed >>> 0, ToInt32(seed))
ToWord(n) == Word(0, n % Half)

RECURSIVE BitXor(_, _, _)
\* a ^ b on `bits' bits
BitXor(a, b, bits) ==
    IF bits = 0 THEN 0
    ELSE (((a % 2) + (b % 2)) % 2) + 2 * BitXor(a \div 2, b \div 2, bits - 1)

RECURSIVE BitOr(_, _, _)
\* a | b on `bits' bits
BitOr(a, b, bits) ==
    IF bits = 0 THEN 0
    ELSE (IF (a % 2) + (b % 2) > 0 THEN 1 ELSE 0)
            + 2 * BitOr(a \div 2, b \div 2, bits - 1)

RECURSIVE Pow2(_)
Pow2(k) == IF k = 0 THEN 1 ELSE 2 * Pow2(k - 1)

\* a ^ b
Xor32(a, b) == Word(BitXor(a.hi, b.hi, 16), BitXor(a.lo, b.lo, 16))

\* k | a, for a constant k below 2^16 (1 | t, 61 | r)
OrSmall(k, a) == Word(a.hi, BitOr(a.lo, k, 16))

\* a >>> k, for 0 < k < 16
Shr(a, k) ==
    Word(a.hi \div Pow2(k),
         (a.lo \div Pow2(k)) + (a.hi % Pow2(k)) * Pow2(16 - k))

\* a + b, truncated to 32 bits
Add32(a, b) ==
    LET lo == a.lo + b.lo
    IN Word((a.hi + b.hi + (lo \div Half)) % Half, lo % Half)

\* the low 16 bits of x * y, for x, y below 2^16
MulLo16(x, y) == (x * (y % 256) + ((x * (y \div 256)) % 256) * 256) % Half

\* Math.imul(a, b): the low 32 bits of the product
Imul(a, b) ==
    LET p0 == a.lo * (b.lo % 256)
        p1 == a.lo * (b.lo \div 256)
        lo == p0 + (p1 % 256) * 256
    IN Word(((lo \div Half) + (p1 \div 256) + MulLo16(a.hi, b.lo) + MulLo16(a.lo, b.hi))
                % Half,
            lo % Half)

\* 0x6D2B79F5
Increment == Word(27947, 31221)

\* the generator state after its i-th call: seed + i * 0x6D2B79F5, as a word
\* (t += 0x6D2B79F5, seed += 0x6D2B79F5; every later use truncates to 32 bits)
StateAfter(seed, i) == Add32(ToWord(seed), Imul(ToWord(i), Increment))

\* the body of the closure mulberry32 returns, on the state t:
\*   r = Math.imul(t ^ (t >>> 15), 1 | t)
\*   r ^= r + Math.imul(r ^ (r >>> 7), 61 | r)
\*   return ((r ^ (r >>> 14)) >>> 0) / 4294967296
\* The result is the word v that stands for v / 2^32.
Temper(t) ==
    LET r1 == Imul(Xor32(t, Shr(t, 15)), OrSmall(1, t))
        r2 == Xor32(r1, Add32(r1, Imul(Xor32(r1, Shr(r1, 7)), OrSmall(61, r1))))
    IN Xor32(r2, Shr(r2, 14))

\* seeds a caller passes
Seeds == {1, 42}

\* ml-pendulum.js, generateSyntheticPendulumDataset: const n = spec.n || 800
DefaultSamplesPendulum == 800
\* ml-pendulum.js, generateSyntheticPendulumDataset: const rng = mulberry32(42)
PendulumSeed == 42

\* the values mulberry32(seed) returns at its calls 1, 2, ..., for the seeds
\* in use, as far as the longest dataset needs them
Draws ==
    [seed \in Seeds \cup {PendulumSeed} |->
        [i \in 1..(8 * DefaultSamplesPendulum) |-> Temper(StateAfter(seed, i))]]

\* the value of the i-th call (i = 1, 2, ...) of mulberry32(seed)
mulberry32(seed, i) == Draws[seed][i]

-----------------------------------------------------------------------------
(* Part II: numbers.  A draw v / 2^32 scaled to a range is kept in fixed      *)
(* point; a value computed by a simulator from its parameters alone is kept   *)
(* as the application of the simulator to these parameters.                   *)

\* rng() > 0.5
GtHalf(w) == w.hi > 32768 \/ (w.hi = 32768 /\ w.lo > 0)

\* k * rng() rounded to the nearest integer (Math.round, toFixed), k < 2^15
ScaledRound(k, w) == (k * w.hi + ((k * w.lo) \div Half) + 32768) \div Half

\* min + rng() * span, with 16 fractional bits (in units of 1 / 65536), span < 2^15
Fix16(min, span, w) == min * Half + span * w.hi + ((span * w.lo) \div Half)

\* Math.random(): a generator the engine seeds; nothing in the page sets or
\* reads its state.  The states it may be in when a function is called:
MathRandomStates == {0, 1, 2}

\* the value, in thousandths, of the k-th call of Math.random() (k = 1, 2, ...)
\* made from state s
MathRandom(s, k) == ((s + k) % 3) * 499

-----------------------------------------------------------------------------
(* Part II: the acid-base generator (acid-base.js) *)

\* CONFIG.noise_sigma, in units of 1e-5
noise_sigma == 1000

\* (Math.random() * ns - ns / 2) * 255, in units of 1e-5
Noise(u) == ((u * noise_sigma) \div 1000 - (noise_sigma \div 2)) * 255

\* runSimulation({indicator, pH, pathLengthCm}); u: the three values
\* Math.random() returns.  rgb is interpolateRGB(...) for litmus, interpolateUniversalColor(pH)
\* otherwise: a function of (indicator, pH); each channel is then
\*   Math.min(255, Math.max(0, v + noise))
\* and is kept as the pair of its colour and its noise
runSimulation(indicator, pH, u) ==
    LET rgb == [indicator |-> indicator, pH |-> pH]
    IN [r |-> [rgb |-> rgb, noise |-> Noise(u[1])],
        g |-> [rgb |-> rgb, noise |-> Noise(u[2])],
        b |-> [rgb |-> rgb, noise |-> Noise(u[3])]]

\* the body of the loop of generateSyntheticDataset, iteration i = 1, 2, ...
\*   indicator = rng() > 0.5 ? 'litmus' : 'universal'; pH = rng() * 14;
\*   pathLengthCm = 0.5 + rng() * 1.5; result = runSimulation(...)
\*   push {pH.toFixed(2), pathLengthCm.toFixed(2), indicator as 0 / 1, r, g, b}
AcidRow(seed, i, u) ==
    LET d1 == mulberry32(seed, 3 * (i - 1) + 1)
        d2 == mulberry32(seed, 3 * (i - 1) + 2)
        d3 == mulberry32(seed, 3 * (i - 1) + 3)
        indicator == IF GtHalf(d1) THEN "litmus" ELSE "universal"
        result == runSimulation(indicator, d2, u)
    IN [pH |-> ScaledRound(1400, d2),
        pathLengthCm |-> 50 + ScaledRound(150, d3),
        indicator |-> IF indicator = "litmus" THEN 0 ELSE 1,
        r |-> result.r, g |-> result.g, b |-> result.b]

\* generateSyntheticDataset(n, seed), called when Math.random is in state
\* `random': iteration i gets its calls 3i - 2, 3i - 1, 3i
generateSyntheticDataset(n, seed, random) ==
    [i \in 1..n |->
        AcidRow(seed, i, [c \in 1..3 |-> MathRandom(random, 3 * (i - 1) + c)])]

-----------------------------------------------------------------------------
(* Part II: the tomato generators (tomato.js, logic/sim.ts) *)

\* simulateTomato(params) of tomato.js draws no random number: its result for
\* day `day' is a function of the parameters
TomatoDayState(params, day) == [simulateTomato |-> params, day |-> day]

\* the rows of iteration i of generateSyntheticTomatoDataset (tomato.js): one
\* row per day of simulateTomato({..., days: simDuration_s})
TomatoRows(days, seed, i) ==
    LET d == [k \in 1..5 |-> mulberry32(seed, 5 * (i - 1) + k)]
        params == [avgTempC |-> Fix16(8, 28, d[1]),
                   soilMoisturePct |-> Fix16(10, 90, d[2]),
                   sunlightHours |-> Fix16(0, 14, d[3]),
                   soilN |-> Fix16(0, 100, d[4]),
                   pestPressure |-> Fix16(0, 10, d[5]),
                   days |-> days]
    IN [day \in 1..days |->
          [avgTempC |-> 800 + ScaledRound(2800, d[1]),
           soilMoisturePct |-> 100 + ScaledRound(900, d[2]),
           sunlightHours |-> ScaledRound(140, d[3]),
           soilN |-> ScaledRound(1000, d[4]),
           pestPressure |-> ScaledRound(100, d[5]),
           targetDay |-> day,
           out |-> TomatoDayState(params, day)]]

RECURSIVE Concat(_, _)
\* the rows pushed by iterations 1..n, in order
Concat(rows, n) == IF n = 0 THEN <<>> ELSE Concat(rows, n - 1) \o rows[n]

\* generateSyntheticTomatoDataset(spec, n, seed) of tomato.js, spec.simDuration_s = days
generateSyntheticTomatoDataset(days, n, seed) ==
    Concat([i \in 1..n |-> TomatoRows(days, seed, i)], n)

\* Math.max(spec.targetDay, 90)
MinSimDays == 90

\* iteration i of generateSyntheticTomatoDataset (sim.ts): six draws, the
\* last one the randomSeed of the simulation (Math.floor(rng() * 1e9), kept as
\* the draw); the row is the state of day min(targetDay, length)
TomatoTsRow(targetDay, seed, i) ==
    LET d == [k \in 1..6 |-> mulberry32(seed, 6 * (i - 1) + k)]
        days == IF targetDay > MinSimDays THEN targetDay ELSE MinSimDays
        params == [avgTempC |-> Fix16(12, 20, d[1]),
                   soilMoisturePct |-> Fix16(25, 60, d[2]),
                   sunlightHours |-> Fix16(4, 8, d[3]),
                   soilN |-> 20 + ScaledRound(70, d[4]),
                   pestPressure |-> ScaledRound(5, d[5]),
                   days |-> days,
                   randomSeed |-> d[6]]
        targetIdx == IF targetDay - 1 < days - 1 THEN targetDay - 1 ELSE days - 1
    IN [runId |-> i - 1,
        avgTempC |-> params.avgTempC,
        soilMoisturePct |-> params.soilMoisturePct,
        sunlightHours |-> params.sunlightHours,
        soilN |-> params.soilN,
        pestPressure |-> params.pestPressure,
        targetDay |-> targetDay,
        out |-> TomatoDayState(params, targetIdx + 1)]

generateSyntheticTomatoDatasetTs(targetDay, n, seed) ==
    [i \in 1..n |-> TomatoTsRow(targetDay, seed, i)]

-----------------------------------------------------------------------------
(* Part II: the pendulum generator (ml-pendulum.js) *)

\* iteration i of generateSyntheticPendulumDataset: eight draws (ranges in
\* thousandths, the angle in hundredths of a degree); the target is computed
\* from simulatePendulum(simParams)
PendulumRow(i) ==
    LET d == [k \in 1..8 |-> mulberry32(PendulumSeed, 8 * (i - 1) + k)]
        simParams == [length_m |-> Fix16(100, 1900, d[1]),
                      initialAngle_deg |-> Fix16(500, 5500, d[2]),
                      damping |-> Fix16(0, 200, d[3]),
                      airDensity |-> Fix16(800, 500, d[4]),
                      bobMass_kg |-> Fix16(50, 450, d[5]),
                      gravity |-> Fix16(5000, 10000, d[6]),
                      dragCoefficient |-> Fix16(100, 900, d[7]),
                      randomSeed |-> [draw |-> d[8], plus |-> i - 1]]
    IN [runId |-> i - 1, simParams |-> simParams,
        estimatedPeriod_s |-> [simulatePendulum |-> simParams]]

\* generateSyntheticPendulumDataset(spec): spec.n = n; whatever else the
\* caller puts into spec (a seed) is not read
generateSyntheticPendulumDataset(n) ==
    [i \in 1..(IF n = 0 THEN DefaultSamplesPendulum ELSE n) |-> PendulumRow(i)]

-----------------------------------------------------------------------------
(* Part II: the specification.  `gen' keeps the last two generator calls of   *)
(* the domain: what was passed and the rows returned.                         *)

Generate(fn, spec, n, seed, rows) ==
    /\ gen' = (IF gen = <<>> THEN <<>> ELSE <<gen[Len(gen)]>>)
                 \o <<[fn |-> fn, spec |-> spec, n |-> n, seed |-> seed,
                       rows |-> rows]>>
    /\ UNCHANGED <<mlVars, ui>>
    /\ UNCHANGED <<rngs, run>>

GenerateAcid(n, seed, random) ==
    /\ dom = "acid"
    /\ Generate("generateSyntheticDataset", 0, n, seed,
                generateSyntheticDataset(n, seed, random))

GenerateTomato(days, n, seed) ==
    /\ dom = "tomato"
    /\ Generate("generateSyntheticTomatoDataset", days, n, seed,
                generateSyntheticTomatoDataset(days, n, seed))

GenerateTomatoTs(targetDay, n, seed) ==
    /\ dom = "tomatoTs"
    /\ Generate("generateSyntheticTomatoDataset", targetDay, n, seed,
                generateSyntheticTomatoDatasetTs(targetDay, n, seed))

GeneratePendulum(n, seed) ==
    /\ dom = "pendulum"
    /\ Generate("generateSyntheticPendulumDataset", 0, n, seed,
                generateSyntheticPendulumDataset(n))

NextGen ==
    \/ \E n \in 0..MaxSamples, seed \in Seeds, random \in MathRandomStates :
          GenerateAcid(n, seed, random)
    \/ \E days \in 1..MaxDays, n \in 0..MaxSamples, seed \in Seeds :
          GenerateTomato(days, n, seed)
    \/ \E targetDay \in 1..MaxDays, n \in 0..MaxSamples, seed \in Seeds :
          GenerateTomatoTs(targetDay, n, seed)
    \/ \E n \in 0..MaxSamples, seed \in Seeds : GeneratePendulum(n, seed)

SpecGen == Init /\ [][NextGen]_vars

\* two of the recorded calls got the same arguments but for the seed
SameButSeed(a, b) == a.fn = b.fn /\ a.spec = b.spec /\ a.n = b.n

\* C9: two calls of a generator with the same sample count and the same seed
\* return the same rows
C9_SameSeedSameRows ==
    \A i, j \in DOMAIN gen :
        (SameButSeed(gen[i], gen[j]) /\ gen[i].seed = gen[j].seed)
            => gen[i].rows = gen[j].rows

\* C10: two calls of a generator with the same sample count n >= 1 and
\* different seeds return rows that differ in at least one place
C10_OtherSeedOtherRows ==
    \A i, j \in DOMAIN gen :
        (SameButSeed(gen[i], gen[j]) /\ gen[i].n >= 1 /\ gen[i].seed # gen[j].seed)
            => gen[i].rows # gen[j].rows

\* C25: for a requested sample count n >= 0 the acid-base and the pendulum
\* generator return n rows, in generation order, and the tomato generator
\* (tomato.js) returns n * days rows, the rows of each tuple in day order
C25_RequestedSampleCount ==
    \A i \in DOMAIN gen :
        /\ gen[i].fn = "generateSyntheticDataset" => Len(gen[i].rows) = gen[i].n
        /\ gen[i].fn = "generateSyntheticPendulumDataset"
              => /\ Len(gen[i].rows) = gen[i].n
                 /\ \A k \in DOMAIN gen[i].rows : gen[i].rows[k].runId = k - 1
        /\ (gen[i].fn = "generateSyntheticTomatoDataset" /\ dom = "tomato")
              => /\ Len(gen[i].rows) = gen[i].n * gen[i].spec
                 /\ \A k \in DOMAIN gen[i].rows :
                        gen[i].rows[k].targetDay = ((k - 1) % gen[i].spec) + 1

-----------------------------------------------------------------------------
(* Part III: calls of the simulators.  `gen' keeps the last two calls: the    *)
(* inputs passed (spec, seed) and the outputs returned (rows).                *)

\* the pH values passed to runSimulation, in tenths
AcidInputs == {0, 70, 140}

\* runSimulation(inputs) of the acid-base demo: three Math.random() draws
SimulateAcid(indicator, pH, random) ==
    /\ dom = "acid"
    /\ Generate("runSimulation", [indicator |-> indicator, pH |-> pH], 0, "none",
                runSimulation(indicator, pH,
                              <<MathRandom(random, 0), MathRandom(random, 1),
                                MathRandom(random, 2)>>))


-----------------------------------------------------------------------------
(* Part IV: numbers.  The simulators compute in double precision; the model   *)
(* computes the same expressions in fixed point with six decimals: the        *)
(* integer x stands for x / 10^6.  Every intermediate value stays below 2^31. *)

\* 1.0
One == 1000000

\* a * b, both non-negative, rounded down to six decimals
Mul6(a, b) ==
    LET ah == a \div 1000
        al == a % 1000
        bh == b \div 1000
        bl == b % 1000
    IN (ah * bh) + (((ah * bl) + (al * bh) + ((al * bl) \div 1000)) \div 1000)

\* a / b for 0 <= a <= b, 0 < b, rounded down to six decimals
Div6(a, b) ==
    LET x == IF b < 2 * One THEN a ELSE a \div 100
        y == IF b < 2 * One THEN b ELSE b \div 100
        q == (x * 1000) \div y
        r == (x * 1000) % y
    IN (q * 1000) + ((r * 1000) \div y)

\* a * a
Sq6(a) == Mul6(a, a)

\* 1 - y + y^2/2 - y^3/6 + y^4/24 - y^5/120 + y^6/720
ExpSum(y, y2, y3, y4) ==
    ((((((One - y) + (y2 \div 2)) - (y3 \div 6)) + (y4 \div 24))
        - (Mul6(y4, y) \div 120)) + (Mul6(y4, y2) \div 720))

ExpTerms(y, y2) == ExpSum(y, y2, Mul6(y2, y), Mul6(y2, y2))

\* Math.exp(-x) for 0 <= x <= 8: exp(-x / 8) by its series, then raised to
\* the eighth power
ExpNeg6(x) == Sq6(Sq6(Sq6(ExpTerms(x \div 8, Mul6(x \div 8, x \div 8)))))

\* |d|
Abs(d) == IF d < 0 THEN 0 - d ELSE d

\* 1 / (1 + e) when d >= 0 and e / (1 + e) when d < 0, for e = exp(-|z|)
SigmoidOf(d, e) == IF d >= 0 THEN Div6(One, One + e) ELSE Div6(e, One + e)

\* 1 / (1 + Math.exp(-k * d)) for a rate k > 0 (six decimals) and an integer d
Sigmoid6(k, d) == SigmoidOf(d, ExpNeg6(k * Abs(d)))

\* the value v / 2^32 a mulberry32 call returns, rounded down to six decimals
U6(w) == ((w.hi * 15625) + ((w.lo * 15625) \div Half)) \div 1024

Max(a, b) == IF a > b THEN a ELSE b

Min(a, b) == IF a < b THEN a ELSE b

\* Math.round(x) of a non-negative x
Round6(x) == (x + (One \div 2)) \div One


-----------------------------------------------------------------------------
(* Part IV: the tomato simulator of logic/sim.ts and its helpers              *)
(* (logic/helpers.ts).  The parameters are whole numbers: degrees, percent,   *)
(* hours, the nutrient index 0..100 and the pest pressure 0..10.              *)

T_BASE == 10

DEFAULT_DAYS == 90

\* dailyGDD(Tavg) = Math.max(0, Tavg - Tbase), in whole degrees
dailyGDD(Tavg) == Max(0, Tavg - T_BASE)

\* helpers.ts: 0.5 + 1.0 / (1 + Math.exp(-0.08 * (m - 60)))
moistureMultiplierTs(m) == (One \div 2) + Sigmoid6(80000, m - 60)

\* helpers.ts: Math.max(0.35, Math.min(1.4, hours / 12))
lightMultiplierTs(hours) == Max(350000, Min(1400000, (hours * One) \div 12))

\* helpers.ts: 0.6 + (Math.max(0, Math.min(100, n)) / 100) * 0.8
nutrientMultiplierTs(n) == 600000 + (Max(0, Min(100, n)) * 8000)

\* helpers.ts: Math.max(0.6, 1 - (p / 10) * 0.4)
pestMultiplierTs(p) == Max(600000, One - (p * 40000))

\* maxHeight * (1 - Math.exp(-4 * biomass)), maxHeight = 150
biomassToHeightCm(biomass) == 150 * (One - ExpNeg6(4 * biomass))

\* helpers.ts, stageFromGDD(GDDcum, germinated)
stageFromGDDTs(GDDcum, germinated) ==
    IF ~germinated THEN "germination"
    ELSE IF GDDcum < 50 THEN "seedling"
    ELSE IF GDDcum < 200 THEN "vegetative"
    ELSE IF GDDcum < 400 THEN "flowering"
    ELSE IF GDDcum < 700 THEN "fruit_set"
    ELSE IF GDDcum < 1000 THEN "fruit_development"
    ELSE "ripening"

\* sim.ts: mulberry32(params.randomSeed ?? Date.now() % 1e9); clock is the
\* value Date.now() % 1e9 has when the call is made
SimSeedTs(params, clock) ==
    IF params.randomSeed.has THEN params.randomSeed.seed ELSE clock

\* sim.ts: Math.max(1, Math.floor(params.days ?? DEFAULT_DAYS))
SimDaysTs(params) ==
    Max(1, IF params.days.has THEN params.days.days ELSE DEFAULT_DAYS)

\* sim.ts, simulateTomato, lines 45-55: the locals before the loop.  `day' is
\* the number of iterations done, `calls' the number of rng() calls made.
simulateTomatoStartTs(seed) ==
    [day |-> 0,
     GDDcum |-> 0,
     biomass |-> 2000 + Mul6(U6(mulberry32(seed, 1)), 3000),
     germinatedPct |-> 0,
     germinated |-> FALSE,
     floweringFlag |-> FALSE,
     fruitCount |-> 0,
     varietyFactor |-> (One + Mul6(U6(mulberry32(seed, 2)), 120000)) - 60000,
     calls |-> 2,
     series |-> <<>>]

\* sim.ts lines 68-76: germination accumulation, one draw, made only while
\* the seed has not germinated
GerminationTs(s, params, seed) ==
    IF s.germinated
    THEN [germinatedPct |-> s.germinatedPct, germinated |-> TRUE, calls |-> s.calls]
    ELSE LET tempFactor == Sigmoid6(280000, params.avgTempC - 22)
             moistureFactor == Sigmoid6(80000, params.soilMoisturePct - 55)
             dailyGerm ==
                 Mul6(Mul6(Mul6(Mul6(20000, tempFactor), moistureFactor),
                           One - (params.pestPressure * 20000)),
                      800000 + Mul6(U6(mulberry32(seed, s.calls + 1)), 600000))
         IN [germinatedPct |-> Min(100 * One, s.germinatedPct + (dailyGerm * 100)),
             germinated |-> Min(100 * One, s.germinatedPct + (dailyGerm * 100))
                                >= 5 * One,
             calls |-> s.calls + 1]

\* sim.ts lines 79-85: GDDtoday * mEff * lEff * nEff * pEff * varietyFactor
EffectiveGDDTs(params, varietyFactor) ==
    Mul6(Mul6(Mul6(Mul6(Mul6(dailyGDD(params.avgTempC) * One,
                             moistureMultiplierTs(params.soilMoisturePct)),
                        lightMultiplierTs(params.sunlightHours)),
                   nutrientMultiplierTs(params.soilN)),
              pestMultiplierTs(params.pestPressure)),
         varietyFactor)

\* sim.ts lines 88-90: rBase = 0.018 * varietyFactor,
\* growthFactor = rBase * (1 + effectiveGDD / (5 + effectiveGDD)),
\* biomass = Math.max(0.0001, biomass + growthFactor * biomass * (1 - biomass))
GrownTs(biomass, varietyFactor, effectiveGDD) ==
    Max(100, biomass
               + Mul6(Mul6(Mul6(18000, varietyFactor),
                           One + Div6(effectiveGDD, (5 * One) + effectiveGDD)),
                      Mul6(biomass, One - biomass)))

\* sim.ts lines 93-95: if (rng() < Math.min(0.01 * pest, 0.15))
\*                         biomass *= (0.85 - 0.15 * rng())
PestDamageTs(grown, pest, seed, calls) ==
    IF U6(mulberry32(seed, calls + 1)) < Min(10000 * pest, 150000)
    THEN [biomass |-> Mul6(grown, 850000 - Mul6(150000, U6(mulberry32(seed, calls + 2)))),
          calls |-> calls + 2]
    ELSE [biomass |-> grown, calls |-> calls + 1]

\* sim.ts lines 104-112: fruit_set adds Math.round(Math.max(0, biomass * 10 *
\* (effectiveGDD / (1 + effectiveGDD)) * (0.7 + rng() * 0.8))); later stages
\* take Math.max(0, Math.round(fruitCount * (1 - pest * 0.01)))
FruitsTs(fruitCount, stage, biomass, effectiveGDD, pest, seed, calls) ==
    IF stage = "fruit_set"
    THEN [fruitCount |->
              fruitCount
                + Round6(Mul6(Mul6(biomass * 10, Div6(effectiveGDD, One + effectiveGDD)),
                              700000 + Mul6(U6(mulberry32(seed, calls + 1)), 800000))),
          calls |-> calls + 1]
    ELSE IF stage \in {"fruit_development", "ripening"}
    THEN [fruitCount |-> Max(0, ((2 * fruitCount * (100 - pest)) + 100) \div 200),
          calls |-> calls]
    ELSE [fruitCount |-> fruitCount, calls |-> calls]

\* sim.ts lines 115-137: the locals after the iteration and the row pushed;
\* heightCm is Math.round(heightCm * 10) / 10, kept in tenths
DayRecordTs(s, GDDcum, g, biomass, stage, f) ==
    [day |-> s.day + 1,
     GDDcum |-> GDDcum,
     biomass |-> biomass,
     germinatedPct |-> g.germinatedPct,
     germinated |-> g.germinated,
     floweringFlag |-> s.floweringFlag \/ stage = "flowering",
     fruitCount |-> f.fruitCount,
     varietyFactor |-> s.varietyFactor,
     calls |-> f.calls,
     series |-> Append(s.series,
                       [day |-> s.day + 1,
                        GDD_cum |-> GDDcum,
                        stage |-> stage,
                        heightCm |-> Round6(biomassToHeightCm(biomass) * 10),
                        flowering |-> s.floweringFlag \/ stage = "flowering",
                        fruitCount |-> f.fruitCount])]

DayStagedTs(s, params, seed, GDDcum, g, effectiveGDD, b, stage) ==
    DayRecordTs(s, GDDcum, g, b.biomass, stage,
                FruitsTs(s.fruitCount, stage, b.biomass, effectiveGDD,
                         params.pestPressure, seed, b.calls))

DayGrownTs(s, params, seed, GDDcum, g, effectiveGDD) ==
    DayStagedTs(s, params, seed, GDDcum, g, effectiveGDD,
                PestDamageTs(GrownTs(s.biomass, s.varietyFactor, effectiveGDD),
                             params.pestPressure, seed, g.calls),
                stageFromGDDTs(GDDcum, g.germinated))

\* sim.ts, simulateTomato, lines 57-138: one iteration of the loop
simulateTomatoDayTs(s, params, seed) ==
    DayGrownTs(s, params, seed, s.GDDcum + dailyGDD(params.avgTempC),
               GerminationTs(s, params, seed),
               EffectiveGDDTs(params, s.varietyFactor))

-----------------------------------------------------------------------------
(* Part IV: the tomato simulator of tomato.js *)

\* tomato.js: 1.5 - Math.abs(m - 60) / 50
moistureMultiplier(m) == 1500000 - (Abs(m - 60) * 20000)

\* tomato.js: 0.4 below 0 hours, 1.4 from 12 hours, 0.4 + hours / 12 between
lightMultiplier(hours) ==
    IF hours <= 0 THEN 400000
    ELSE IF hours >= 12 THEN 1400000
    ELSE 400000 + ((hours * One) \div 12)

\* tomato.js: 0.6 + (n / 100) * 0.8
nutrientMultiplier(n) == 600000 + (n * 8000)

\* tomato.js: 1.0 - (p / 10) * 0.3
pestMultiplier(p) == One - (p * 30000)

\* the thresholds of two stages taken in the wrong order
stageFromGDDSwapped(GDDcum, germinated) ==
    IF ~germinated THEN "seed"
    ELSE IF GDDcum < 50 THEN "germination"
    ELSE IF GDDcum < 200 THEN "vegetative"
    ELSE IF GDDcum < 400 THEN "seedling"
    ELSE IF GDDcum < 700 THEN "flowering"
    ELSE IF GDDcum < 1000 THEN "fruit_set"
    ELSE IF GDDcum < 1300 THEN "fruit_development"
    ELSE "ripening"

\* tomato.js, stageFromGDD(GDDcum, germinated)
stageFromGDD(GDDcum, germinated) ==
    IF ~germinated THEN "seed"
    ELSE IF GDDcum < 50 THEN "germination"
    ELSE IF GDDcum < 200 THEN "seedling"
    ELSE IF GDDcum < 400 THEN "vegetative"
    ELSE IF GDDcum < 700 THEN "flowering"
    ELSE IF GDDcum < 1000 THEN "fruit_set"
    ELSE IF GDDcum < 1300 THEN "fruit_development"
    ELSE "ripening"

\* tomato.js: the loop runs while day <= days; with days undefined the
\* comparison is false at once
SimDays(params) == IF params.days.has THEN Max(0, params.days.days) ELSE 0

\* tomato.js, simulateTomato, lines 1653-1660: the locals before the loop
simulateTomatoStart ==
    [day |-> 0,
     GDDcum |-> 0,
     biomass |-> 0,
     germinatedPct |-> 0,
     germinated |-> FALSE,
     floweringFlag |-> FALSE,
     fruitCount |-> 0,
     varietyFactor |-> One,
     calls |-> 0,
     series |-> <<>>]

\* Math.floor(biomass * effectiveGDD * k)
FruitsOf(biomass, effectiveGDD, k) == Mul6(Mul6(biomass, effectiveGDD), k) \div One

\* tomato.js lines 1668-1677: germinationRate = 15 * tempFactor * moistFactor
GerminatedPct(s, params) ==
    IF s.germinatedPct < 100 * One
    THEN Min(100 * One,
             s.germinatedPct
               + Mul6(Mul6(15 * One,
                           Max(0, One - ((Abs(params.avgTempC - 22) * One) \div 15))),
                      Max(0, One - ((Abs(params.soilMoisturePct - 55) * One) \div 45))))
    ELSE s.germinatedPct

\* tomato.js lines 1680-1686
EffectiveGDD(params) ==
    Mul6(Mul6(Mul6(Mul6(dailyGDD(params.avgTempC) * One,
                        moistureMultiplier(params.soilMoisturePct)),
                   lightMultiplier(params.sunlightHours)),
              nutrientMultiplier(params.soilN)),
         pestMultiplier(params.pestPressure))

\* tomato.js lines 1689-1693:
\*   deltaB = growthRate * biomass * (1 - biomass) * effectiveGDD * 0.01
\*   biomass = Math.min(1, biomass + deltaB + 0.001)
Grown(biomass, germinated, effectiveGDD) ==
    IF germinated /\ effectiveGDD > 0
    THEN Min(One, biomass
                    + Mul6(Mul6(Mul6(50000, Mul6(biomass, One - biomass)),
                                effectiveGDD), 10000)
                    + 1000)
    ELSE biomass

\* tomato.js lines 1699-1702
Flowering(flowering, stage) ==
    flowering \/ stage \in {"flowering", "fruit_set", "fruit_development", "ripening"}

\* tomato.js lines 1705-1710
FruitSet(fruitCount, stage, flowering, biomass, effectiveGDD) ==
    IF stage = "fruit_set" /\ flowering
    THEN Min(30, fruitCount + FruitsOf(biomass, effectiveGDD, 500000))
    ELSE fruitCount

\* tomato.js lines 1713-1716
FruitDevelopment(fruitCount, stage, flowering, biomass, effectiveGDD) ==
    IF stage = "fruit_development" /\ flowering
    THEN Min(30, fruitCount + FruitsOf(biomass, effectiveGDD, 300000))
    ELSE fruitCount

\* tomato.js lines 1719-1722
Ripening(fruitCount, stage, flowering, biomass, effectiveGDD) ==
    IF stage = "ripening" /\ flowering /\ fruitCount < 20
    THEN Min(30, fruitCount + FruitsOf(biomass, effectiveGDD, 200000))
    ELSE fruitCount

\* tomato.js lines 1725-1727:
\*   Math.max(0, Math.floor(fruitCount * (1 - pestPressure * 0.02)))
FruitPestDamage(fruitCount, stage, pest) ==
    IF stage \in {"fruit_development", "ripening"} /\ pest > 3
    THEN Max(0, (fruitCount * (100 - (2 * pest))) \div 100)
    ELSE fruitCount

\* tomato.js lines 1729-1752: the locals after the iteration and the row
\* pushed; heightCm is parseFloat(heightCm.toFixed(2)), kept in hundredths
DayRecord(s, GDDcum, germinatedPct, biomass, stage, flowering, fruitCount) ==
    [day |-> s.day + 1,
     GDDcum |-> GDDcum,
     biomass |-> biomass,
     germinatedPct |-> germinatedPct,
     germinated |-> germinatedPct >= 5 * One,
     floweringFlag |-> flowering,
     fruitCount |-> fruitCount,
     varietyFactor |-> One,
     calls |-> 0,
     series |-> Append(s.series,
                       [day |-> s.day + 1,
                        GDD_cum |-> GDDcum,
                        stage |-> stage,
                        heightCm |-> (biomassToHeightCm(biomass) + 5000) \div 10000,
                        flowering |-> flowering,
                        fruitCount |-> Max(0, Min(30, fruitCount))])]

DayFruits(s, params, GDDcum, germinatedPct, effectiveGDD, biomass, stage, flowering) ==
    DayRecord(s, GDDcum, germinatedPct, biomass, stage, flowering,
              FruitPestDamage(
                  Ripening(
                      FruitDevelopment(
                          FruitSet(s.fruitCount, stage, flowering, biomass, effectiveGDD),
                          stage, flowering, biomass, effectiveGDD),
                      stage, flowering, biomass, effectiveGDD),
                  stage, params.pestPressure))

DayStaged(s, params, GDDcum, germinatedPct, effectiveGDD, stage) ==
    DayFruits(s, params, GDDcum, germinatedPct, effectiveGDD,
              Grown(s.biomass, germinatedPct >= 5 * One, effectiveGDD),
              stage, Flowering(s.floweringFlag, stage))

DayGerminated(s, params, GDDcum, germinatedPct) ==
    DayStaged(s, params, GDDcum, germinatedPct, EffectiveGDD(params),
              stageFromGDD(GDDcum, germinatedPct >= 5 * One))

\* tomato.js, simulateTomato, lines 1662-1753: one iteration of the loop
simulateTomatoDay(s, params) ==
    DayGerminated(s, params, s.GDDcum + dailyGDD(params.avgTempC),
                  GerminatedPct(s, params))

-----------------------------------------------------------------------------
(* Part IV: the specification of simulateTomato.  `run' is the invocation:    *)
(* its parameters, the seed of its generator, its locals and, once it has     *)
(* returned, the series it returned.  Domain "tomato" runs the code of        *)
(* tomato.js, domain "tomatoTs" the code of logic/sim.ts.                     *)

\* the longest simulation a caller asks for
MaxSimDays == 150

\* params.days: absent, or a whole number
DaysOptions ==
    {[has |-> FALSE, days |-> 0]}
        \cup {[has |-> TRUE, days |-> d] : d \in {0, 1, 2, MaxSimDays}}

\* params.randomSeed: absent, or one of the seeds
SeedOptions ==
    {[has |-> FALSE, seed |-> 0]} \cup {[has |-> TRUE, seed |-> x] : x \in Seeds}

\* the values Date.now() % 1e9 takes in the model
Clocks == Seeds

\* the environments passed: cool or warm, without pests or with the highest
\* pest pressure
TomatoParams ==
    [avgTempC : {14, 25}, soilMoisturePct : {60}, sunlightHours : {12},
     soilN : {70}, pestPressure : {0, 10}, days : DaysOptions,
     randomSeed : SeedOptions]

\* the number of iterations the loop of the invocation makes
RunDays == IF dom = "tomatoTs" THEN SimDaysTs(run.params) ELSE SimDays(run.params)

\* simulateTomato(params) is called
SimulateTomato(params, clock) ==
    /\ dom \in {"tomato", "tomatoTs"}
    /\ run.returned
    /\ run' = [fn |-> "simulateTomato",
               params |-> params,
               seed |-> IF dom = "tomatoTs" THEN SimSeedTs(params, clock) ELSE 0,
               s |-> IF dom = "tomatoTs"
                     THEN simulateTomatoStartTs(SimSeedTs(params, clock))
                     ELSE simulateTomatoStart,
               returned |-> FALSE]
    /\ UNCHANGED <<mlVars, ui>>
    /\ UNCHANGED <<gen, rngs>>

\* one iteration of for (day = 1; day <= days; day++)
SimulateTomatoDay ==
    /\ run.fn = "simulateTomato"
    /\ ~run.returned
    /\ run.s.day < RunDays
    /\ run' = [run EXCEPT !.s = IF dom = "tomatoTs"
                                 THEN simulateTomatoDayTs(run.s, run.params, run.seed)
                                 ELSE simulateTomatoDay(run.s, run.params)]
    /\ UNCHANGED <<mlVars, ui>>
    /\ UNCHANGED <<gen, rngs>>

\* the loop is left: return series
SimulateTomatoReturn ==
    /\ run.fn = "simulateTomato"
    /\ ~run.returned
    /\ run.s.day >= RunDays
    /\ run' = [run EXCEPT !.returned = TRUE]
    /\ UNCHANGED <<mlVars, ui>>
    /\ UNCHANGED <<gen, rngs>>

NextTomato ==
    \/ \E params \in TomatoParams, clock \in Clocks : SimulateTomato(params, clock)
    \/ SimulateTomatoDay
    \/ SimulateTomatoReturn

SpecTomato == Init /\ [][NextTomato]_vars


-----------------------------------------------------------------------------
(* Part IV: the properties of simulateTomato *)

\* the rows the invocation has pushed so far; all of them once it has returned
Series == IF run.fn = "simulateTomato" THEN run.s.series ELSE <<>>

\* C17: in the day sequence of simulateTomato, heightCm on day d+1 is never
\* smaller than heightCm on day d
C17_HeightNeverDecreases ==
    \A d \in 1..(Len(Series) - 1) : Series[d + 1].heightCm >= Series[d].heightCm

\* C18: on every day of every simulateTomato run the recorded fruitCount is
\* an integer between 0 and the cap, 30
C18_FruitCountWithinCap ==
    \A d \in 1..Len(Series) : Series[d].fruitCount \in 0..30

\* C20: for every requested day count, simulateTomato returns a sequence of
\* that length, with the day field running 1, 2, ..., days in order
C20_OneRowPerRequestedDay ==
    (run.fn = "simulateTomato" /\ run.returned /\ run.params.days.has)
        => /\ Len(Series) = run.params.days.days
           /\ \A d \in 1..Len(Series) : Series[d].day = d


-----------------------------------------------------------------------------
(* Part III: whole calls of simulateTomato, for short simulations *)

RECURSIVE simulateTomatoLoopTs(_, _, _, _)
\* sim.ts: for (let day = 1; day <= days; day++) { ... }  return series
simulateTomatoLoopTs(s, params, seed, days) ==
    IF s.day >= days THEN s.series
    ELSE simulateTomatoLoopTs(simulateTomatoDayTs(s, params, seed), params, seed, days)

\* sim.ts, simulateTomato(params), called when Date.now() % 1e9 is clock
simulateTomatoTs(params, clock) ==
    simulateTomatoLoopTs(simulateTomatoStartTs(SimSeedTs(params, clock)), params,
                         SimSeedTs(params, clock), SimDaysTs(params))

RECURSIVE simulateTomatoLoop(_, _, _)
\* tomato.js: for (let day = 1; day <= days; day++) { ... }  return results
simulateTomatoLoop(s, params, days) ==
    IF s.day >= days THEN s.series
    ELSE simulateTomatoLoop(simulateTomatoDay(s, params), params, days)

\* tomato.js, simulateTomato(params)
simulateTomato(params) ==
    simulateTomatoLoop(simulateTomatoStart, params, SimDays(params))

\* the parameters of the short simulations
ShortTomatoParams == {p \in TomatoParams : p.days.has /\ p.days.days \in 1..MaxDays}

SimulateTomatoTs(params, clock) ==
    /\ dom = "tomatoTs"
    /\ Generate("simulateTomato", params, 0, params.randomSeed,
                simulateTomatoTs(params, clock))

SimulateTomatoJs(params) ==
    /\ dom = "tomato"
    /\ Generate("simulateTomato", params, 0, params.randomSeed,
                simulateTomato(params))


-----------------------------------------------------------------------------
(* Part IV: the pendulum simulator (ml-pendulum.js), in the same fixed point. *)
(* Signed values round towards zero.  A value that may be undefined is a      *)
(* record: NaN, or Num(v) for the number v.                                   *)

NaN == [nan |-> TRUE, v |-> 0]

Num(v) == [nan |-> FALSE, v |-> v]

\* isNaN(x)
isNaN(x) == x.nan

\* a / k for a whole divisor k > 0
TDiv(a, k) == IF a < 0 THEN 0 - ((0 - a) \div k) ELSE a \div k

\* a * b
SMul6(a, b) ==
    IF (a < 0) = (b < 0) THEN Mul6(Abs(a), Abs(b)) ELSE 0 - Mul6(Abs(a), Abs(b))

RECURSIVE Frac6(_, _, _)
\* the first k decimals of r / b, for 0 <= r < b
Frac6(r, b, k) ==
    IF k = 0 THEN 0
    ELSE (((r * 10) \div b) * (10 ^ (k - 1))) + Frac6((r * 10) % b, b, k - 1)

\* a / b for b > 0
Quot6(a, b) ==
    IF a < 0 THEN 0 - (((Abs(a) \div b) * One) + Frac6(Abs(a) % b, b, 6))
    ELSE ((a \div b) * One) + Frac6(a % b, b, 6)

RECURSIVE SqrtSearch(_, _, _)
\* the largest r in lo..hi with r * r <= x
SqrtSearch(x, lo, hi) ==
    IF lo >= hi THEN lo
    ELSE IF Mul6((lo + hi + 1) \div 2, (lo + hi + 1) \div 2) <= x
         THEN SqrtSearch(x, (lo + hi + 1) \div 2, hi)
         ELSE SqrtSearch(x, lo, ((lo + hi + 1) \div 2) - 1)

\* Math.sqrt(x) for 0 <= x <= 4
Sqrt6(x) == SqrtSearch(x, 0, 2 * One)

\* Math.PI
PI6 == 3141593

SinSum(x, x2, x3, x5, x7) ==
    (((x - TDiv(x3, 6)) + TDiv(x5, 120)) - TDiv(x7, 5040))
        + TDiv(SMul6(x7, x2), 362880)

SinX5(x, x2, x3, x5) == SinSum(x, x2, x3, x5, SMul6(x5, x2))

SinX3(x, x2, x3) == SinX5(x, x2, x3, SMul6(x3, x2))

SinX2(x, x2) == SinX3(x, x2, SMul6(x2, x))

\* Math.sin(x) by its series up to x^9, for |x| below 2
Sin6(x) == SinX2(x, SMul6(x, x))

\* deg2rad(d) = (d * Math.PI) / 180
deg2rad(d) == TDiv(SMul6(d, PI6), 180)

\* A = Math.PI * (0.014 * 0.014)
BobArea == 616

\* dragForce = 0.5 * rho * Math.abs(v) * v * A * Cd, for v = L * omega
DragForce(p, v) ==
    SMul6(SMul6(SMul6(SMul6(SMul6(One \div 2, p.airDensity), Abs(v)), v), BobArea),
          p.dragCoefficient)

\* pendulumDerivatives(theta, omega, p)
pendulumDerivatives(theta, omega, p) ==
    [dtheta |-> omega,
     domega |->
        Quot6(((0 - SMul6(SMul6(SMul6(p.bobMass_kg, p.gravity), p.length_m), Sin6(theta)))
                 - SMul6(SMul6(SMul6(p.damping, omega), p.length_m), p.length_m))
                 - SMul6(DragForce(p, SMul6(p.length_m, omega)), p.length_m),
              SMul6(SMul6(p.bobMass_kg, p.length_m), p.length_m))]

Rk4Sum(theta, omega, dt, k1, k2, k3, k4) ==
    [nextTheta |-> theta + SMul6(TDiv(dt, 6),
                                 k1.dtheta + (2 * k2.dtheta) + (2 * k3.dtheta) + k4.dtheta),
     nextOmega |-> omega + SMul6(TDiv(dt, 6),
                                 k1.domega + (2 * k2.domega) + (2 * k3.domega) + k4.domega)]

Rk4K4(theta, omega, dt, p, k1, k2, k3) ==
    Rk4Sum(theta, omega, dt, k1, k2, k3,
           pendulumDerivatives(theta + SMul6(k3.dtheta, dt),
                               omega + SMul6(k3.domega, dt), p))

Rk4K3(theta, omega, dt, p, k1, k2) ==
    Rk4K4(theta, omega, dt, p, k1, k2,
          pendulumDerivatives(theta + TDiv(SMul6(k2.dtheta, dt), 2),
                              omega + TDiv(SMul6(k2.domega, dt), 2), p))

Rk4K2(theta, omega, dt, p, k1) ==
    Rk4K3(theta, omega, dt, p, k1,
          pendulumDerivatives(theta + TDiv(SMul6(k1.dtheta, dt), 2),
                              omega + TDiv(SMul6(k1.domega, dt), 2), p))

\* rk4Step(theta, omega, dt, p)
rk4Step(theta, omega, dt, p) ==
    Rk4K2(theta, omega, dt, p, pendulumDerivatives(theta, omega, p))

\* theoreticalSmallAnglePeriod(L_m, g) = 2 * Math.PI * Math.sqrt(L_m / g);
\* undefined when the quotient is negative or is not a number
theoreticalSmallAnglePeriod(L_m, g) ==
    IF g <= 0 \/ L_m < 0 THEN NaN ELSE Num(Mul6(2 * PI6, Sqrt6(Quot6(L_m, g))))

\* the interior indices where theta is not below its neighbours
PeakIndicesNotStrict(states) ==
    {i \in 2..(Len(states) - 1) :
        /\ states[i].theta >= states[i - 1].theta
        /\ states[i].theta >= states[i + 1].theta}

\* the indices of the strict interior local maxima of theta:
\*   for (i = 1; i < angles.length - 1; i++)
\*       if (angles[i] > angles[i - 1] && angles[i] > angles[i + 1]) peaks.push(times[i])
PeakIndices(states) ==
    {i \in 2..(Len(states) - 1) :
        /\ states[i].theta > states[i - 1].theta
        /\ states[i].theta > states[i + 1].theta}

\* the peak pushed before the peak at index i
PreviousPeak(P, i) == CHOOSE j \in P : j < i /\ \A k \in P : k < i => k <= j

RECURSIVE SumDiffs(_, _, _)
\* diffs.reduce((a, b) => a + b, 0), diffs[i] = peaks[i] - peaks[i - 1];
\* rest holds the peaks whose difference has not been added yet
SumDiffs(states, P, rest) ==
    IF rest = {} THEN 0
    ELSE LET i == CHOOSE x \in rest : \A y \in rest : y <= x
         IN (states[i].t - states[PreviousPeak(P, i)].t)
                + SumDiffs(states, P, rest \ {i})

First(P) == CHOOSE i \in P : \A k \in P : i <= k

\* mean = diffs.reduce(...) / diffs.length
MeanOfDiffs(states, P) == SumDiffs(states, P, P \ {First(P)}) \div (Cardinality(P) - 1)

EstimateOf(states, minSwings, P) ==
    IF Cardinality(P) < minSwings
    THEN [meanPeriod |-> NaN, nSwings |-> Cardinality(P)]
    ELSE [meanPeriod |-> Num(MeanOfDiffs(states, P)), nSwings |-> Cardinality(P) - 1]

\* estimatePeriodFromSeries(states, minSwings)
estimatePeriodFromSeries(states, minSwings) ==
    EstimateOf(states, minSwings, PeakIndices(states))


-----------------------------------------------------------------------------
(* Part IV: simulatePendulum and generateSyntheticPendulumDataset, one loop   *)
(* iteration per step.  `run.sim' is the frame of simulatePendulum; for the   *)
(* generator, `run' also holds the row index i and the rows pushed so far.    *)

\* const n = spec.n, for the datasets generated iteration by iteration
MaxPendulumRows == 2

\* params.timeStep ?? 0.01
DefaultTimeStep == 10000

\* params.totalTime ?? 20; spec.simDuration_s || 20
DefaultTotalTime == 20 * One

Absent == [has |-> FALSE, v |-> 0]

Given(v) == [has |-> TRUE, v |-> v]

\* x ?? d
OrDefault(x, d) == IF x.has THEN x.v ELSE d

\* the parameters a caller of simulatePendulum passes: a pendulum at rest in
\* the vertical or released at 30 degrees; the default step or a quarter of a
\* second; no time at all, half a second, a second, or the default 20 s
PendulumParams ==
    [length_m : {One}, initialAngle_deg : {0, 30 * One}, damping : {50000},
     airDensity : {1200000}, bobMass_kg : {100000}, gravity : {9810000},
     dragCoefficient : {470000},
     timeStep : {Absent, Given(250000)},
     totalTime : {Absent, Given(0), Given(500000), Given(One)}]

\* simulatePendulum, lines 128-140: the frame before the loop
SimStart(params) ==
    [p |-> params,
     dt |-> OrDefault(params.timeStep, DefaultTimeStep),
     total |-> OrDefault(params.totalTime, DefaultTotalTime),
     t |-> 0,
     theta |-> deg2rad(params.initialAngle_deg),
     omega |-> 0,
     states |-> <<>>]

\* states.push({t, theta, omega, ...}); t += dt
SimPush(sim, theta, omega) ==
    [sim EXCEPT !.theta = theta, !.omega = omega,
                !.states = Append(@, [t |-> sim.t, theta |-> theta, omega |-> omega]),
                !.t = @ + sim.dt]

SimStepped(sim, next) == SimPush(sim, next.nextTheta, next.nextOmega)

\* simulatePendulum, lines 143-159: one iteration of the loop
SimIteration(sim) ==
    IF sim.t < sim.total
    THEN SimStepped(sim, rk4Step(sim.theta, sim.omega, sim.dt, sim.p))
    ELSE SimPush(sim, sim.theta, sim.omega)

\* the loop condition t <= total + 1e-9; 1e-9 is below the six decimals kept
SimContinues(sim) == sim.t <= sim.total

\* getRand(min, max) = min + rng() * (max - min)
getRand(min, span, w) == min + Mul6(U6(w), span)

\* generateSyntheticPendulumDataset, lines 187-198: simParams of iteration i
\* (i = 0, 1, ...), eight draws of mulberry32(42)
SimParams(i, simDuration_s) ==
    [length_m |-> getRand(100000, 1900000, mulberry32(PendulumSeed, (8 * i) + 1)),
     initialAngle_deg |-> getRand(5 * One, 55 * One, mulberry32(PendulumSeed, (8 * i) + 2)),
     damping |-> getRand(0, 200000, mulberry32(PendulumSeed, (8 * i) + 3)),
     airDensity |-> getRand(800000, 500000, mulberry32(PendulumSeed, (8 * i) + 4)),
     bobMass_kg |-> getRand(50000, 450000, mulberry32(PendulumSeed, (8 * i) + 5)),
     gravity |-> getRand(5 * One, 10 * One, mulberry32(PendulumSeed, (8 * i) + 6)),
     dragCoefficient |-> getRand(100000, 900000, mulberry32(PendulumSeed, (8 * i) + 7)),
     totalTime |-> Given(simDuration_s),
     timeStep |-> Given(DefaultTimeStep)]

\* the estimate taken as it is, without the fallback
MeanPeriodWithoutFallback(est, simParams) == est.meanPeriod

\* meanPeriod = isNaN(est.meanPeriod)
\*     ? theoreticalSmallAnglePeriod(simParams.length_m, simParams.gravity)
\*     : est.meanPeriod
MeanPeriod(est, simParams) ==
    IF isNaN(est.meanPeriod)
    THEN theoreticalSmallAnglePeriod(simParams.length_m, simParams.gravity)
    ELSE est.meanPeriod

\* Math.round(meanPeriod * 1000) / 1000, kept in thousandths
Round3(x) == IF isNaN(x) THEN NaN ELSE Num((x.v + 500) \div 1000)

\* rows.push({runId, ...simParams, estimatedPeriod_s}); est is kept with the
\* row: what estimatePeriodFromSeries returned for the row's simulation
RowOf(i, simParams, est) ==
    [runId |-> i, simParams |-> simParams, est |-> est,
     estimatedPeriod_s |-> Round3(MeanPeriod(est, simParams))]

\* the durations spec.simDuration_s asks for, in seconds; 0 is absent
SimDurations == {0, 2}

\* simulatePendulum(params) is called
SimulatePendulum(params) ==
    /\ dom = "pendulum"
    /\ run.returned
    /\ run' = [fn |-> "simulatePendulum", returned |-> FALSE, n |-> 0, i |-> 0,
               simDuration_s |-> 0, rows |-> <<>>, sim |-> SimStart(params)]
    /\ UNCHANGED <<mlVars, ui>>
    /\ UNCHANGED <<gen, rngs>>

\* generateSyntheticPendulumDataset({n, simDuration_s}) is called, n >= 1
GeneratePendulumStart(n, simDuration_s) ==
    /\ dom = "pendulum"
    /\ run.returned
    /\ run' = [fn |-> "generateSyntheticPendulumDataset", returned |-> FALSE,
               n |-> n, i |-> 0,
               simDuration_s |-> IF simDuration_s = 0 THEN DefaultTotalTime
                                 ELSE simDuration_s * One,
               rows |-> <<>>,
               sim |-> SimStart(SimParams(0, IF simDuration_s = 0 THEN DefaultTotalTime
                                             ELSE simDuration_s * One))]
    /\ UNCHANGED <<mlVars, ui>>
    /\ UNCHANGED <<gen, rngs>>

\* one iteration of for (let t = 0; t <= total + 1e-9; t += dt)
SimulatePendulumStep ==
    /\ run.fn \in {"simulatePendulum", "generateSyntheticPendulumDataset"}
    /\ ~run.returned
    /\ run.i < run.n \/ run.fn = "simulatePendulum"
    /\ SimContinues(run.sim)
    /\ run' = [run EXCEPT !.sim = SimIteration(run.sim)]
    /\ UNCHANGED <<mlVars, ui>>
    /\ UNCHANGED <<gen, rngs>>

\* simulatePendulum leaves its loop: return states
SimulatePendulumReturn ==
    /\ run.fn = "simulatePendulum"
    /\ ~run.returned
    /\ ~SimContinues(run.sim)
    /\ run' = [run EXCEPT !.returned = TRUE]
    /\ UNCHANGED <<mlVars, ui>>
    /\ UNCHANGED <<gen, rngs>>

\* the simulation of row i has returned: estimate, fall back, push the row,
\* and enter the next iteration of for (let i = 0; i < n; i++)
GeneratePendulumRow ==
    /\ run.fn = "generateSyntheticPendulumDataset"
    /\ ~run.returned
    /\ run.i < run.n
    /\ ~SimContinues(run.sim)
    /\ run' = [run EXCEPT
                 !.rows = Append(@, RowOf(run.i, run.sim.p,
                                          estimatePeriodFromSeries(run.sim.states, 3))),
                 !.i = @ + 1,
                 !.sim = IF run.i + 1 < run.n
                         THEN SimStart(SimParams(run.i + 1, run.simDuration_s))
                         ELSE run.sim]
    /\ UNCHANGED <<mlVars, ui>>
    /\ UNCHANGED <<gen, rngs>>

\* the loop over the rows is left: return rows
GeneratePendulumReturn ==
    /\ run.fn = "generateSyntheticPendulumDataset"
    /\ ~run.returned
    /\ run.i >= run.n
    /\ run' = [run EXCEPT !.returned = TRUE]
    /\ UNCHANGED <<mlVars, ui>>
    /\ UNCHANGED <<gen, rngs>>

NextPendulum ==
    \/ \E params \in PendulumParams : SimulatePendulum(params)
    \/ \E n \in 1..MaxPendulumRows, simDuration_s \in SimDurations :
          GeneratePendulumStart(n, simDuration_s)
    \/ SimulatePendulumStep
    \/ SimulatePendulumReturn
    \/ GeneratePendulumRow
    \/ GeneratePendulumReturn

SpecPendulum == Init /\ [][NextPendulum]_vars


-----------------------------------------------------------------------------
(* Part IV: the properties of the pendulum simulator and generator *)

\* the rows generateSyntheticPendulumDataset has pushed so far
PendulumRows ==
    IF run.fn = "generateSyntheticPendulumDataset" THEN run.rows ELSE <<>>

\* C13: every row of generateSyntheticPendulumDataset has a defined numeric
\* target estimatedPeriod_s; when estimatePeriodFromSeries reported an
\* undefined period for the row's simulation, the target is the small-angle
\* period 2 * pi * sqrt(L / g) of the row's length and gravity, rounded to
\* three decimals
C13_TargetAlwaysDefined ==
    \A k \in DOMAIN PendulumRows :
        /\ ~isNaN(PendulumRows[k].estimatedPeriod_s)
        /\ isNaN(PendulumRows[k].est.meanPeriod)
              => PendulumRows[k].estimatedPeriod_s
                    = Round3(theoreticalSmallAnglePeriod(
                                 PendulumRows[k].simParams.length_m,
                                 PendulumRows[k].simParams.gravity))

\* a dataset with a row whose estimate was undefined and a row whose estimate
\* was a number has been returned
C13_Witness ==
    /\ run.fn = "generateSyntheticPendulumDataset"
    /\ run.returned
    /\ \E k \in DOMAIN run.rows : isNaN(run.rows[k].est.meanPeriod)

\* the states simulatePendulum has pushed so far, for a direct call
PendulumStates == IF run.fn = "simulatePendulum" THEN run.sim.states ELSE <<>>

\* C14: the first state recorded by simulatePendulum (t = 0) is the initial
\* condition: theta is the initial angle in radians, omega is 0
C14_FirstStateIsInitialCondition ==
    Len(PendulumStates) >= 1
        => /\ PendulumStates[1].t = 0
           /\ PendulumStates[1].theta = deg2rad(run.sim.p.initialAngle_deg)
           /\ PendulumStates[1].omega = 0

\* C15: for dt > 0 and totalTime >= 0, simulatePendulum returns one state
\* per step from t = 0 to t = totalTime inclusive, with strictly increasing t,
\* each state exactly one RK4 step after the previous one
C15_OneStatePerStep ==
    (run.fn = "simulatePendulum" /\ run.returned)
        => /\ Len(PendulumStates) >= 1
           /\ PendulumStates[1].t = 0
           /\ PendulumStates[Len(PendulumStates)].t = run.sim.total
           /\ \A k \in 2..Len(PendulumStates) :
                 /\ PendulumStates[k].t > PendulumStates[k - 1].t
                 /\ [nextTheta |-> PendulumStates[k].theta,
                     nextOmega |-> PendulumStates[k].omega]
                       = rk4Step(PendulumStates[k - 1].theta,
                                 PendulumStates[k - 1].omega, run.sim.dt, run.sim.p)


-----------------------------------------------------------------------------
(* Part IV: estimatePeriodFromSeries on the angle series a caller may pass.   *)

\* the longest series passed
MaxSeries == 7

\* the angles of the series passed
Angles == {0, 1, 2}

\* the time of the i-th state: evenly spaced, or with growing gaps
TimeOf(grid, i) == IF grid = "even" THEN (i - 1) * DefaultTimeStep
                   ELSE (i * i) * DefaultTimeStep

AngleSeries(len) == [1..len -> Angles]

\* estimatePeriodFromSeries(states, 3) is called, once in a behaviour
EstimatePeriod(angles, grid) ==
    /\ dom = "pendulum"
    /\ run = NoRun
    /\ run' = [fn |-> "estimatePeriodFromSeries", returned |-> TRUE,
               states |-> [i \in DOMAIN angles |->
                              [t |-> TimeOf(grid, i), theta |-> angles[i], omega |-> 0]],
               est |-> estimatePeriodFromSeries(
                           [i \in DOMAIN angles |->
                              [t |-> TimeOf(grid, i), theta |-> angles[i], omega |-> 0]],
                           3)]
    /\ UNCHANGED <<mlVars, ui>>
    /\ UNCHANGED <<gen, rngs>>

NextPeriod ==
    \E len \in 0..MaxSeries, grid \in {"even", "uneven"} :
        \E angles \in AngleSeries(len) : EstimatePeriod(angles, grid)

SpecPeriod == Init /\ [][NextPeriod]_vars

\* the series estimatePeriodFromSeries was called with
EstimatedSeries == IF run.fn = "estimatePeriodFromSeries" THEN run.states ELSE <<>>

\* its strict interior local maxima
Maxima ==
    {i \in DOMAIN EstimatedSeries :
        /\ i > 1
        /\ i < Len(EstimatedSeries)
        /\ EstimatedSeries[i - 1].theta < EstimatedSeries[i].theta
        /\ EstimatedSeries[i + 1].theta < EstimatedSeries[i].theta}

\* C16: estimatePeriodFromSeries(states, 3) returns an undefined mean period
\* exactly when the series has fewer than 3 strict interior local maxima of
\* theta, and otherwise the mean of the differences between the times of
\* consecutive maxima: the time from the first to the last maximum, divided
\* by the number of differences
C16_UndefinedIffFewerThanThreeMaxima ==
    run.fn = "estimatePeriodFromSeries"
        => IF Cardinality(Maxima) < 3
           THEN isNaN(run.est.meanPeriod)
           ELSE run.est.meanPeriod
                  = Num((EstimatedSeries[CHOOSE i \in Maxima : \A k \in Maxima : k <= i].t
                           - EstimatedSeries[CHOOSE i \in Maxima : \A k \in Maxima : i <= k].t)
                          \div (Cardinality(Maxima) - 1))

\* a series with exactly three maxima, unevenly spaced, got a defined period
C16_Witness ==
    /\ run.fn = "estimatePeriodFromSeries"
    /\ Cardinality(Maxima) = 3
    /\ run.states[2].t - run.states[1].t # run.states[3].t - run.states[2].t
    /\ ~isNaN(run.est.meanPeriod)


-----------------------------------------------------------------------------
(* Part IV: stageFromGDD on pairs of cumulative-GDD values.                   *)

\* the largest cumulative GDD passed
MaxGDD == 1400

\* the values passed: every multiple of 50 and the value just below it
GDDValues == {g \in 0..MaxGDD : g % 50 \in {0, 49}}

\* types.ts, PhenologyStage: the stages in their order
PhenologyStage ==
    <<"seed", "germination", "seedling", "vegetative", "flowering", "fruit_set",
      "fruit_development", "ripening">>

\* the position of a stage in the order
StageRank(stage) == CHOOSE k \in DOMAIN PhenologyStage : PhenologyStage[k] = stage

\* stageFromGDD(a, germinated) and stageFromGDD(b, germinated) are called,
\* once in a behaviour
StageFromGDD(a, b, germinated) ==
    /\ dom \in {"tomato", "tomatoTs"}
    /\ run = NoRun
    /\ run' = [fn |-> "stageFromGDD", returned |-> TRUE, a |-> a, b |-> b,
               germinated |-> germinated,
               stageA |-> IF dom = "tomatoTs" THEN stageFromGDDTs(a, germinated)
                          ELSE stageFromGDD(a, germinated),
               stageB |-> IF dom = "tomatoTs" THEN stageFromGDDTs(b, germinated)
                          ELSE stageFromGDD(b, germinated)]
    /\ UNCHANGED <<mlVars, ui>>
    /\ UNCHANGED <<gen, rngs>>

NextStage ==
    \E a \in GDDValues, b \in GDDValues, germinated \in BOOLEAN :
        StageFromGDD(a, b, germinated)

SpecStage == Init /\ [][NextStage]_vars

\* C19: for a fixed germination flag and cumulative-GDD values a <= b, the
\* stage stageFromGDD returns for a is not later than the stage it returns
\* for b, in the order seed < germination < seedling < vegetative < flowering
\* < fruit_set < fruit_development < ripening
C19_StageMonotoneInGDD ==
    (run.fn = "stageFromGDD" /\ run.a <= run.b)
        => StageRank(run.stageA) <= StageRank(run.stageB)

\* a germinated plant was asked about two values that lie in different stages
C19_Witness ==
    /\ run.fn = "stageFromGDD"
    /\ run.germinated
    /\ run.a < run.b
    /\ run.stageA # run.stageB


-----------------------------------------------------------------------------
(* Part III: mulberry32 generator objects.  mulberry32(seed) returns a        *)
(* closure over its own variable t; `rngs' holds, for every closure created,  *)
(* its seed, its t (as a 32-bit word) and the values its calls returned.      *)

\* the closures created in a behaviour
MaxRngs == 3

\* the calls made to one closure
MaxCalls == 2

\* mulberry32(seed): let t = seed >>> 0; return function () { ... }
CreateRng(seed) ==
    /\ Len(rngs) < MaxRngs
    /\ rngs' = Append(rngs, [seed |-> seed, t |-> ToWord(seed), out |-> <<>>])
    /\ UNCHANGED <<mlVars, ui>>
    /\ UNCHANGED <<gen, run>>

\* a call of closure k with every closure's t advanced, as if t were shared
CalledShared(objects, k) ==
    [i \in DOMAIN objects |->
        IF i = k
        THEN [objects[i] EXCEPT !.t = Add32(@, Increment),
                                !.out = Append(@, Temper(Add32(objects[i].t, Increment)))]
        ELSE [objects[i] EXCEPT !.t = Add32(@, Increment)]]

\* a call of closure k: t += 0x6D2B79F5, then the value computed from t
Called(objects, k) ==
    [objects EXCEPT ![k].t = Add32(@, Increment),
                    ![k].out = Append(@, Temper(Add32(objects[k].t, Increment)))]

\* closure k is called
CallRng(k) ==
    /\ Len(rngs[k].out) < MaxCalls
    /\ rngs' = Called(rngs, k)
    /\ UNCHANGED <<mlVars, ui>>
    /\ UNCHANGED <<gen, run>>

NextRng ==
    \/ \E seed \in Seeds : CreateRng(seed)
    \/ \E k \in DOMAIN rngs : CallRng(k)

SpecRng == Init /\ [][NextRng]_vars

\* C12: two generators created by mulberry32 from the same seed return the
\* same value at every call index, however the calls to them and to other
\* generators are interleaved, and every value v returned satisfies
\* 0 <= v < 1 (the word w stands for v = w / 2^32)
C12_SameSeedSameSequence ==
    \A a \in DOMAIN rngs :
        /\ \A i \in DOMAIN rngs[a].out :
              /\ rngs[a].out[i].hi \in 0..(Half - 1)
              /\ rngs[a].out[i].lo \in 0..(Half - 1)
              /\ rngs[a].out[i] = mulberry32(rngs[a].seed, i)
        /\ \A b \in DOMAIN rngs :
              rngs[a].seed = rngs[b].seed
                 => \A i \in DOMAIN rngs[a].out \cap DOMAIN rngs[b].out :
                       rngs[a].out[i] = rngs[b].out[i]

\* two generators of one seed have each been called twice, and a generator
\* of another seed has been called as well
C12_Witness ==
    \E a, b, c \in DOMAIN rngs :
        /\ a # b
        /\ rngs[a].seed = rngs[b].seed
        /\ rngs[c].seed # rngs[a].seed
        /\ Len(rngs[a].out) = 2
        /\ Len(rngs[b].out) = 2
        /\ Len(rngs[c].out) >= 1


-----------------------------------------------------------------------------
(* Part III: the specification of the simulator calls *)

RECURSIVE simulatePendulumLoop(_)
\* for (let t = 0; t <= total + 1e-9; t += dt) { ... }  return states
simulatePendulumLoop(sim) ==
    IF SimContinues(sim) THEN simulatePendulumLoop(SimIteration(sim)) ELSE sim.states

\* simulatePendulum(params)
simulatePendulum(params) == simulatePendulumLoop(SimStart(params))

\* the parameters of the short simulations
ShortPendulumParams == {p \in PendulumParams : p.timeStep.has /\ p.totalTime.has}

SimulatePendulumWhole(params) ==
    /\ dom = "pendulum"
    /\ Generate("simulatePendulum", params, 0, Absent, simulatePendulum(params))

NextSim ==
    \/ \E indicator \in {"litmus", "universal"}, pH \in AcidInputs,
          random \in MathRandomStates : SimulateAcid(indicator, pH, random)
    \/ \E params \in ShortTomatoParams, clock \in Clocks :
          SimulateTomatoTs(params, clock)
    \/ \E params \in ShortTomatoParams : SimulateTomatoJs(params)
    \/ \E params \in ShortPendulumParams : SimulatePendulumWhole(params)

SpecSim == Init /\ [][NextSim]_vars

\* C11: each simulator returns identical outputs for two calls with identical
\* inputs (the seed passed included); it reads neither the wall clock nor an
\* unseeded random source
C11_SameInputsSameOutputs ==
    \A i, j \in DOMAIN gen :
        (gen[i].fn = gen[j].fn /\ gen[i].spec = gen[j].spec)
            => gen[i].rows = gen[j].rows


-----------------------------------------------------------------------------
(* Part V: the universal indicator (acid-base.js, logic/helpers.ts).  A pH    *)
(* is kept in tenths.                                                         *)

\* the largest pH passed, in tenths
MaxPH == 160

\* CONFIG.indicators.universal.color_map
color_map ==
    << [pH |-> 10, rgb |-> <<255, 0, 0>>],
       [pH |-> 40, rgb |-> <<255, 128, 0>>],
       [pH |-> 70, rgb |-> <<0, 255, 0>>],
       [pH |-> 100, rgb |-> <<0, 0, 255>>],
       [pH |-> 140, rgb |-> <<128, 0, 128>>] >>

\* Math.round(a + (b - a) * t) for t = num / den: the nearest integer, a half
\* rounded up; a division by zero leaves no number
RoundedChannel(a, b, t) ==
    IF t.den = 0 THEN NaN
    ELSE LET den == IF t.den < 0 THEN 0 - t.den ELSE t.den
             num == IF t.den < 0 THEN 0 - t.num ELSE t.num
         IN Num((2 * (a * den + (b - a) * num) + den) \div (2 * den))

\* interpolateRGB(a, b, t)
interpolateRGB(a, b, t) ==
    <<RoundedChannel(a[1], b[1], t), RoundedChannel(a[2], b[2], t),
      RoundedChannel(a[3], b[3], t)>>

RECURSIVE SurroundingPoints(_, _)
\* let low = map[0]; let high = map[map.length - 1];
\* for (i ...) if (pH >= map[i].pH && pH <= map[i + 1].pH) { low, high; break }
SurroundingPoints(pH, i) ==
    IF i > Len(color_map) - 1
    THEN [low |-> color_map[1], high |-> color_map[Len(color_map)]]
    ELSE IF pH >= color_map[i].pH /\ pH <= color_map[i + 1].pH
         THEN [low |-> color_map[i], high |-> color_map[i + 1]]
         ELSE SurroundingPoints(pH, i + 1)

\* the factor measured from pH 0 instead of from the lower point
InterpolationFactorFromZero(pH, low, high) ==
    [num |-> pH - low.pH, den |-> high.pH]

\* const t = (pH - low.pH) / (high.pH - low.pH), as a fraction
InterpolationFactor(pH, low, high) ==
    [num |-> pH - low.pH, den |-> high.pH - low.pH]

\* interpolateUniversalColor(pH): the factor and the colour returned
interpolateUniversalColor(pH) ==
    LET found == SurroundingPoints(pH, 1)
        t == InterpolationFactor(pH, found.low, found.high)
    IN [t |-> t, rgb |-> interpolateRGB(found.low.rgb, found.high.rgb, t)]

\* the pH values passed: the slider and the pH scale pass 0 to 14, the
\* function accepts any number
PHValues == 0..MaxPH

\* interpolateUniversalColor(pH) is called, once in a behaviour
InterpolateUniversalColor(pH) ==
    /\ dom = "acid"
    /\ run = NoRun
    /\ run' = [fn |-> "interpolateUniversalColor", returned |-> TRUE, pH |-> pH,
               t |-> interpolateUniversalColor(pH).t,
               rgb |-> interpolateUniversalColor(pH).rgb]
    /\ UNCHANGED <<mlVars, ui>>
    /\ UNCHANGED <<gen, rngs>>

NextColor == \E pH \in PHValues : InterpolateUniversalColor(pH)

SpecColor == Init /\ [][NextColor]_vars

\* the colour of an anchor, as returned
AnchorColor(k) == [c \in 1..3 |-> Num(color_map[k].rgb[c])]

\* C21: for a pH below the first or above the last anchor of the table,
\* interpolateUniversalColor returns the RGB of the nearest endpoint of the
\* table, every channel within 0..255
C21_ClampedOutsideTable ==
    run.fn = "interpolateUniversalColor"
        => /\ run.pH < color_map[1].pH => run.rgb = AnchorColor(1)
           /\ run.pH > color_map[Len(color_map)].pH
                  => run.rgb = AnchorColor(Len(color_map))
           /\ (run.pH < color_map[1].pH \/ run.pH > color_map[Len(color_map)].pH)
                  => \A c \in 1..3 : ~isNaN(run.rgb[c]) /\ run.rgb[c].v \in 0..255

\* C22: called with the pH of an anchor, interpolateUniversalColor returns
\* the RGB of that anchor exactly, and for no pH does it divide by zero
C22_AnchorsReturnedExactly ==
    run.fn = "interpolateUniversalColor"
        => /\ run.t.den # 0
           /\ \A c \in 1..3 : ~isNaN(run.rgb[c])
           /\ \A k \in DOMAIN color_map :
                  run.pH = color_map[k].pH => run.rgb = AnchorColor(k)

\* the colour of an anchor inside the table was asked for
C22_Witness ==
    /\ run.fn = "interpolateUniversalColor"
    /\ run.pH = color_map[2].pH
    /\ run.rgb = <<Num(255), Num(128), Num(0)>>


-----------------------------------------------------------------------------
(* Part VI: the controllers and the training, prediction and colour update   *)
(* they trigger.  A handler runs to its first await in one step; what follows *)
(* an await that a module step resolves runs in the step that resolves it.    *)

\* updateColor calls that may wait for predictColor at a time
MaxPending == 2

\* generateSyntheticDataset(1000, 42); generateSyntheticTomatoDataset(
\* { simDuration_s: 60 }, 1000, 42); generateSyntheticPendulumDataset({ n: 800 })
DatasetSize(d) ==
    CASE d = "acid" -> 1000
      [] d = "tomato" -> 1000 * 60
      [] OTHER -> 800

\* { epochs: 50 }, { epochs: this.mlParams.epochs }, { epochs: 100, callbacks }
ControllerOptions(d) ==
    [has |-> TRUE,
     epochs |-> CASE d = "acid" -> 50 [] d = "tomato" -> 40 [] OTHER -> 100]

\* trainOptions.callbacks of trainPendulumModel: the chart callbacks of
\* tfvis.show.fitCallbacks; options.callbacks is not read
FitCallbacks == {"tfvis.show.fitCallbacks"}

\* the calls of the callback the caller passed, made by `epochs' epochs
CallerCallbackCalls(epochs) ==
    IF "options.callbacks" \in FitCallbacks THEN epochs ELSE 0

\* this.targetColor = { r: 150, g: 150, b: 150 }
PlaceholderColor(pH) == [mode |-> "ml", pH |-> pH, model |-> Null]

\* updateColor() of the acid-base controller, the module holding model m and
\* normalization n, a training run `inflight' (0: none) being under way:
\* formula mode assigns targetColor at once; ML mode assigns the placeholder
\* when not trained, and otherwise calls predictColor and waits for it
updateColor(u, m, n, inflight) ==
    IF u.mode = "formula" THEN [u EXCEPT !.targetColor = FormulaColor(u.pH)]
    ELSE IF ~u.mlTrained THEN [u EXCEPT !.targetColor = PlaceholderColor(u.pH)]
    ELSE [u EXCEPT
            !.predicted = [out |-> PredictWithNormArg(m, n), model |-> m,
                           norm |-> n, inflight |-> inflight],
            !.pending = IF PredictWithNormArg(m, n) = "value"
                        THEN Append(@, [pH |-> u.pH, model |-> m]) ELSE @]

\* the flag is raised in every case
TrainedAfterAnyEnd(flag, out) == TRUE

\* this.mlTrained = true / this.isModelTrained = true follows the await of
\* the training function: it is reached when the function returned
TrainedAfter(flag, out) == flag \/ out = "ok"

\* the button is left enabled
TrainClickedNotDisabled(u) ==
    [u EXCEPT !.training = @ + 1, !.onEpochEnd = 0]

\* trainBtn.disabled = true, the first statement of trainMLModel / startTraining
TrainClicked(u) ==
    [u EXCEPT !.disabled = TRUE, !.training = @ + 1, !.onEpochEnd = 0]

\* what follows `await train...(...)' in trainMLModel / startTraining when the
\* module step returned r: the flag, (acid-base, ML mode) updateColor(), and
\* `finally { trainBtn.disabled = false }'
TrainingEnded(u, r, m, n) ==
    IF r.op # "train" THEN u
    ELSE LET v == [u EXCEPT !.training = @ - 1, !.disabled = FALSE,
                            !.mlTrained = TrainedAfter(@, r.out)]
         IN IF dom = "acid" /\ r.out = "ok" /\ v.mode = "ml"
            THEN updateColor(v, m, n, 0) ELSE v

\* a step of the controller alone
ModuleUntouched ==
    /\ ret' = NoRet
    /\ UNCHANGED <<dom, currentModel, normalization, storage, pc, task, runs,
                   fitting, fitIsCurrent, session, gen, rngs, run>>

\* a click on the train button of the acid-base or the tomato page:
\* trainMLModel() up to the first await inside the training function
TrainMLModel(fault) ==
    /\ dom \in {"acid", "tomato"}
    /\ ~ui.disabled
    /\ TrainStart(DatasetSize(dom), ControllerOptions(dom), fault)
    /\ ui' = TrainingEnded(TrainClicked(ui), ret', currentModel', normalization')

\* a click on the train button of the pendulum page: startTraining() up to
\* `await new Promise(resolve => setTimeout(resolve, 500))'
StartTraining ==
    /\ dom = "pendulum"
    /\ ~ui.disabled
    /\ runs + ui.prep < MaxRuns
    /\ ui' = [TrainClicked(ui) EXCEPT !.prep = @ + 1]
    /\ ModuleUntouched

\* the timer of startTraining fires: trainPendulumModel(this.teacherData, ...)
TrainPendulumModel(fault) ==
    /\ dom = "pendulum"
    /\ ui.prep > 0
    /\ TrainStart(DatasetSize(dom), ControllerOptions(dom), fault)
    /\ ui' = TrainingEnded([ui EXCEPT !.prep = @ - 1], ret', currentModel',
                           normalization')

\* epochs of model.fit, each followed by the callbacks handed to it
EpochsRun ==
    /\ dom \in MainDomains
    /\ \/ FitEpoch /\ ui' = [ui EXCEPT !.onEpochEnd = @ + CallerCallbackCalls(1)]
       \/ /\ FitRest
          /\ ui' = [ui EXCEPT !.onEpochEnd =
                                  @ + CallerCallbackCalls(task.epochs - task.done)]

\* the training function goes on after model.fit, and the controller after it
TrainingProceeds ==
    /\ dom \in MainDomains
    /\ \/ FitFail
       \/ \E ok \in BOOLEAN : FitDone(ok)
       \/ \E ok \in BOOLEAN : SaveModelStep(ok)
       \/ \E ok \in BOOLEAN : TrainResume(ok)
    /\ ui' = TrainingEnded(ui, ret', currentModel', normalization')

\* the run in flight when a prediction is asked for (0: none)
InFlight == IF pc = "idle" THEN 0 ELSE task.run

\* a click on a mode button; the acid-base handler ends with updateColor()
SetMode(mode) ==
    /\ dom \in MainDomains
    /\ ui.mode # mode
    /\ Len(ui.pending) < MaxPending
    /\ ui' = IF dom = "acid"
             THEN updateColor([ui EXCEPT !.mode = mode], currentModel,
                              normalization, InFlight)
             ELSE [ui EXCEPT !.mode = mode]
    /\ ModuleUntouched

\* the pH slider, a preset or reset() of the acid-base page: the input is
\* assigned, then updateColor()
SetPH(pH) ==
    /\ dom = "acid"
    /\ Len(ui.pending) < MaxPending
    /\ ui' = updateColor([ui EXCEPT !.pH = pH], currentModel, normalization,
                         InFlight)
    /\ ModuleUntouched

\* `await prediction.data()' of the oldest waiting predictColor resolves:
\* this.targetColor = colorResult
ColorPredicted ==
    /\ dom = "acid"
    /\ ui.pending # <<>>
    /\ ui' = [ui EXCEPT !.targetColor = [mode |-> "ml", pH |-> Head(ui.pending).pH,
                                         model |-> Head(ui.pending).model],
                        !.pending = Tail(@)]
    /\ ModuleUntouched

\* fetchPrediction(inputs) of the pendulum page, runMLPrediction() of the
\* tomato page, in ML mode: nothing is asked of the module unless the flag is set
RunPrediction ==
    /\ dom \in {"pendulum", "tomato"}
    /\ ui.mode = "ml"
    /\ ui' = [ui EXCEPT !.predicted =
                IF ~ui.mlTrained
                THEN [out |-> "rejected", model |-> Null, norm |-> Null,
                      inflight |-> InFlight]
                ELSE [out |-> PredictOutcome(dom, currentModel, normalization),
                      model |-> currentModel, norm |-> normalization,
                      inflight |-> InFlight]]
    /\ ModuleUntouched

\* the page is loaded again: a new controller; loadSavedModel() of the
\* acid-base and the tomato page sets the flag `if (model && norm)'
PageReload ==
    /\ dom \in MainDomains
    /\ Reload
    /\ ui' = [NewController(dom) EXCEPT
                !.mlTrained = /\ ret'.op = "loadSaved"
                              /\ ret'.out = "ok"
                              /\ ~IsNull(ret'.model)
                              /\ ~IsNull(ret'.norm)]

\* acid-base pH settings, in tenths
PHSettings == {30, 70}

NextUi ==
    \/ \E fault \in Faults : TrainMLModel(fault)
    \/ StartTraining
    \/ \E fault \in Faults : TrainPendulumModel(fault)
    \/ EpochsRun
    \/ TrainingProceeds
    \/ \E mode \in {"formula", "ml"} : SetMode(mode)
    \/ \E pH \in PHSettings : SetPH(pH)
    \/ ColorPredicted
    \/ RunPrediction
    \/ PageReload
    \/ \E k \in Keys(dom) : dom \in MainDomains /\ CorruptEntry(k) /\ UNCHANGED ui

SpecUi == Init /\ [][NextUi]_vars

\* C23: a training run that was passed an epoch-progress callback (the
\* pendulum page passes one) and completes has called it once per epoch
C23_CallbackOncePerEpoch ==
    (dom = "pendulum" /\ ret.op = "train" /\ ret.out = "ok")
        => ui.onEpochEnd = ret.frame.done

\* C24: in each controller at most one training invocation is in flight, and
\* the train button is disabled exactly from the start of a run to its end
C24_OneTrainingInFlight ==
    /\ ui.training <= 1
    /\ ui.disabled <=> ui.training = 1
    /\ pc # "idle" => ui.training = 1

\* a second run is in flight after the first one has ended
C24_Witness ==
    /\ pc = "fit"
    /\ runs = 2
    /\ ui.disabled

\* C26: a prediction asked for while a training run is in flight is rejected
\* or is served by the model of an earlier, completed run with its own
\* normalization
C26_NoPredictionByModelInTraining ==
    (ui.predicted.out = "value" /\ ui.predicted.inflight > 0)
        => /\ ui.predicted.model.init # ui.predicted.inflight
           /\ ui.predicted.model.trained = "full"
           /\ ui.predicted.norm.run = ui.predicted.model.run

\* C29: once no updateColor call waits, targetColor is the result computed
\* for the current mode and inputs
C29_TargetColorIsCurrent ==
    (dom = "acid" /\ ui.pending = <<>>)
        => /\ ui.targetColor.mode = ui.mode
           /\ ui.targetColor.pH = ui.pH

\* C30: the "model trained" flag is set only while the module holds a model
\* and a normalization, and a prediction issued in ML mode never raises the
\* model-not-ready error
C30_TrainedFlagImpliesModelAndNorm ==
    /\ ui.mlTrained => (~IsNull(currentModel) /\ ~IsNull(normalization))
    /\ ui.predicted.out # "notReady"

\* the flag is still set after a later run has failed, and a prediction was served
C30_Witness ==
    /\ ui.mlTrained
    /\ ret.op = "train"
    /\ ret.out = "throws"
    /\ ui.predicted.out = "value"

-----------------------------------------------------------------------------
(* Part VII: playback of the tomato page (tomato.js, TomatoExperiment):      *)
(* play(), pause(), reset(), the speed selector, the day scrubber and the     *)
(* interval timers that play() starts                                         *)

\* setInterval calls per behaviour
MaxTimers == 3
\* most days of a simulation that is played back
MaxPlaybackDays == 4

\* pause(): isPlaying = false; the interval of the handle, if there is a
\* handle, is cleared and the handle is set to null
pause(v) ==
    [v EXCEPT !.isPlaying = FALSE,
              !.live = IF v.animationInterval # 0
                       THEN v.live \ {v.animationInterval} ELSE v.live,
              !.animationInterval = 0]

\* play(): nothing without simulation data; otherwise isPlaying = true and the
\* handle is assigned a new interval, whatever the handle held before
play(v) ==
    IF v.simulationData = 0
    THEN v
    ELSE [v EXCEPT !.isPlaying = TRUE,
                   !.started = v.started + 1,
                   !.animationInterval = v.started + 1,
                   !.live = v.live \cup {v.started + 1}]

\* reset(): pause(), then day 0
reset(v) == [pause(v) EXCEPT !.currentDay = 0]

\* the callback of an interval: pause() on the last day, otherwise the next day
intervalCallback(v) ==
    IF v.currentDay >= v.simulationData - 1
    THEN pause(v)
    ELSE [v EXCEPT !.currentDay = v.currentDay + 1,
                   !.late = v.late \/ ~v.isPlaying]

\* the page changes its playback state to v; the module is left alone
Playback(v) ==
    /\ dom = "tomato"
    /\ ui' = [ui EXCEPT !.view = v]
    /\ UNCHANGED <<mlVars, gen, rngs, run>>

\* runFormulaSimulation(): new simulation data, day 0; the timers are left alone
RunFormulaSimulation(days) ==
    /\ dom = "tomato"
    /\ Playback([ui.view EXCEPT !.simulationData = days, !.currentDay = 0])

\* click on the play button
Play ==
    /\ dom = "tomato"
    /\ ui.view.started < MaxTimers
    /\ Playback(play(ui.view))

\* click on the pause button
Pause ==
    /\ dom = "tomato"
    /\ Playback(pause(ui.view))

\* click on the reset button
ResetPlayback ==
    /\ dom = "tomato"
    /\ Playback(reset(ui.view))

\* the speed selector changes: `if (this.isPlaying) { pause(); play(); }'
SpeedChange ==
    /\ dom = "tomato"
    /\ ui.view.started < MaxTimers
    /\ Playback(IF ui.view.isPlaying THEN play(pause(ui.view)) ELSE ui.view)

\* the day scrubber is moved to a day of the simulation
Scrub(day) ==
    /\ dom = "tomato"
    /\ day < ui.view.simulationData
    /\ Playback([pause(ui.view) EXCEPT !.currentDay = day])

\* an interval timer that was not cleared fires
IntervalFires(id) ==
    /\ dom = "tomato"
    /\ id \in ui.view.live
    /\ Playback(intervalCallback(ui.view))

NextPlayback ==
    \/ \E days \in 1..MaxPlaybackDays : RunFormulaSimulation(days)
    \/ Play
    \/ Pause
    \/ ResetPlayback
    \/ SpeedChange
    \/ \E day \in 0..(MaxPlaybackDays - 1) : Scrub(day)
    \/ \E id \in 1..MaxTimers : IntervalFires(id)

SpecPlayback == Init /\ [][NextPlayback]_vars

\* C28: on the tomato page at most one playback interval timer is live, and
\* no timer advances currentDay between a pause() or reset() and the next play()
C28_OneLiveInterval ==
    dom = "tomato" => /\ Cardinality(ui.view.live) <= 1
                      /\ ~ui.view.late

-----------------------------------------------------------------------------
(* Part VIII: the animation of the pendulum page (pendulum.js,               *)
(* PendulumExperiment): runSimulation, the pause and reset buttons, the bob   *)
(* being pressed, dragged and released, and p.draw. Time is counted in        *)
(* simulation time steps, so the frame index of p.draw is millis - startTime  *)

\* frames of the longest simulation
MaxFrames == 2
\* the last instant of the clock
MaxClock == 3
\* setTimeout callbacks of mouseReleased that wait at one time
MaxPauseTimers == 1

\* a - b of two numbers, NaN when either is NaN
Minus(a, b) == IF a.nan \/ b.nan THEN NaN ELSE Num(a.v - b.v)

\* a + b of two numbers, NaN when either is NaN
Plus(a, b) == IF a.nan \/ b.nan THEN NaN ELSE Num(a.v + b.v)

\* pauseAnimation()
pauseAnimation(v) ==
    IF v.isAnimating
    THEN [v EXCEPT !.isAnimating = FALSE, !.pausedTime = Num(v.millis),
                   !.looping = FALSE]
    ELSE v

\* the start time after `this.startTime += this.sketch.millis() - this.pausedTime'
ResumedStartTime(v) == Plus(v.startTime, Minus(Num(v.millis), v.pausedTime))

\* resumeAnimation()
resumeAnimation(v) ==
    IF ~v.isAnimating /\ v.physicsData > 0
    THEN [v EXCEPT !.isAnimating = TRUE, !.startTime = ResumedStartTime(v),
                   !.looping = TRUE]
    ELSE v

\* startAnimation()
startAnimation(v) ==
    [v EXCEPT !.isAnimating = TRUE, !.currentFrame = Num(0),
              !.startTime = Num(v.millis), !.looping = TRUE]

\* stopAnimation()
stopAnimation(v) == [v EXCEPT !.isAnimating = FALSE, !.looping = FALSE]

\* fetchPrediction(inputs) returns null in ML mode when the model is not trained
PredictionIsNull == ui.mode = "ml" /\ ~ui.mlTrained

\* runSimulation(e) of the pendulum page with a simulation of `frames' states; the awaited
\* fetchPrediction makes no asynchronous call, so the function ends before
\* any other event is handled
runPendulumSimulation(v, frames) ==
    IF PredictionIsNull
    THEN [stopAnimation(v) EXCEPT !.currentFrame = Num(0)]
    ELSE [startAnimation([stopAnimation(v) EXCEPT !.physicsData = frames])
             EXCEPT !.hasRunOnce = TRUE]

\* the frame p.draw reads in its playback branch: the index, or the last
\* frame when the index is past the data (no comparison with NaN is true)
FrameRead(v) ==
    IF ~Minus(Num(v.millis), v.startTime).nan
         /\ Minus(Num(v.millis), v.startTime).v >= v.physicsData
    THEN Num(v.physicsData - 1)
    ELSE Minus(Num(v.millis), v.startTime)

\* p.draw()
draw(v) ==
    IF v.physicsData = 0 /\ ~v.isBobDragging
    THEN [v EXCEPT !.drawn = [NoDraw EXCEPT !.branch = "message"]]
    ELSE IF v.isBobDragging
    THEN [v EXCEPT !.drawn = [NoDraw EXCEPT !.branch = "drag"]]
    ELSE [(IF FrameRead(v) # Minus(Num(v.millis), v.startTime)
           THEN stopAnimation(v) ELSE v)
             EXCEPT !.currentFrame = FrameRead(v),
                    !.drawn = [branch |-> "playback", startTime |-> v.startTime,
                               frame |-> FrameRead(v), length |-> v.physicsData]]

\* resetSimulation(): the data are cleared, isBobDragging = true, redraw()
resetSimulation(v) ==
    draw([v EXCEPT !.physicsData = 0, !.currentFrame = Num(0),
                   !.hasRunOnce = FALSE, !.isBobDragging = TRUE])

\* the page changes its animation state to v; the module is left alone
Animation(v) ==
    /\ ui' = [ui EXCEPT !.view = v]
    /\ UNCHANGED <<mlVars, gen, rngs, run>>

\* click on the run button
RunSimulation(frames) ==
    /\ dom = "pendulum"
    /\ Animation(runPendulumSimulation(ui.view, frames))

\* click on the pause button (start times up to twice the last instant)
PauseClicked ==
    /\ dom = "pendulum"
    /\ ResumedStartTime(ui.view).nan \/ ResumedStartTime(ui.view).v <= 2 * MaxClock
    /\ Animation(IF ui.view.isAnimating THEN pauseAnimation(ui.view)
                 ELSE resumeAnimation(ui.view))

\* click on the reset button
ResetSimulation ==
    /\ dom = "pendulum"
    /\ Animation(resetSimulation(ui.view))

\* click on a mode button: the mode, and debounceRunSimulation()
ModeClicked(mode) ==
    /\ dom = "pendulum"
    /\ ui' = [ui EXCEPT !.mode = mode, !.view.debounceTimer = TRUE]
    /\ UNCHANGED <<mlVars, gen, rngs, run>>

\* p.mousePressed near the bob, with or without a modifier key
MousePressed(modifier) ==
    /\ dom = "pendulum"
    /\ Animation([pauseAnimation(ui.view) EXCEPT
                     !.isBobDragging = ~modifier,
                     !.isLengthChanging = modifier,
                     !.wasAnimatingBeforeDrag = ui.view.isAnimating,
                     !.looping = TRUE])

\* p.mouseDragged: the sliders follow the bob and debounceRunSimulation() is called
MouseDragged ==
    /\ dom = "pendulum"
    /\ ui.view.isBobDragging
    /\ Animation([ui.view EXCEPT !.debounceTimer = TRUE])

\* p.mouseReleased: runPendulumSimulation(), and a timer for pauseAnimation() when the
\* animation was not running before the drag
MouseReleased(frames) ==
    /\ dom = "pendulum"
    /\ ui.view.isBobDragging
    /\ ui.view.pauseTimers < MaxPauseTimers
    /\ Animation([runPendulumSimulation([ui.view EXCEPT !.isBobDragging = FALSE], frames)
                    EXCEPT !.pauseTimers =
                        IF ui.view.wasAnimatingBeforeDrag THEN ui.view.pauseTimers
                        ELSE ui.view.pauseTimers + 1])

\* the timer of mouseReleased runs out
PauseTimerFires ==
    /\ dom = "pendulum"
    /\ ui.view.pauseTimers > 0
    /\ Animation([pauseAnimation(ui.view) EXCEPT
                     !.pauseTimers = ui.view.pauseTimers - 1])

\* the timer of debounceRunSimulation runs out
DebounceFires(frames) ==
    /\ dom = "pendulum"
    /\ ui.view.debounceTimer
    /\ Animation([(IF ~ui.view.isBobDragging /\ ~ui.view.isLengthChanging
                        /\ ui.view.hasRunOnce
                   THEN runPendulumSimulation(ui.view, frames) ELSE ui.view)
                    EXCEPT !.debounceTimer = FALSE])

\* a frame of the sketch while it loops
Draw ==
    /\ dom = "pendulum"
    /\ ui.view.looping
    /\ Animation(draw(ui.view))

\* time passes
Tick ==
    /\ dom = "pendulum"
    /\ ui.view.millis < MaxClock
    /\ Animation([ui.view EXCEPT !.millis = ui.view.millis + 1])

NextAnimation ==
    \/ \E frames \in 1..MaxFrames : RunSimulation(frames)
    \/ PauseClicked
    \/ ResetSimulation
    \/ \E mode \in {"formula", "ml"} : ModeClicked(mode)
    \/ \E modifier \in BOOLEAN : MousePressed(modifier)
    \/ MouseDragged
    \/ \E frames \in 1..MaxFrames : MouseReleased(frames)
    \/ PauseTimerFires
    \/ \E frames \in 1..MaxFrames : DebounceFires(frames)
    \/ Draw
    \/ Tick

SpecAnimation == Init /\ [][NextAnimation]_vars

\* C27: whenever p.draw takes its playback branch, startTime is a finite
\* number and the frame it reads is an index of physicsData
C27_FrameIndexDefined ==
    (dom = "pendulum" /\ ui.view.drawn.branch = "playback")
        => /\ ~ui.view.drawn.startTime.nan
           /\ ~ui.view.drawn.frame.nan
           /\ ui.view.drawn.frame.v \in 0..(ui.view.drawn.length - 1)

=============================================================================
